---- MODULE Spec2Model ----
(***************************************************************************)
(* A model of the cosmac_emu CDP1802 core: the CPU state machine           *)
(* (cosmac_emu/src/chips/cdp1802.rs), its pin bundle (cdp1802/pins.rs) and *)
(* the memory it is wired to (cdp1802/memory.rs), composed tick by tick    *)
(* the way the chip's own test system composes them (cdp1802/tests.rs),    *)
(* and of the two UARTs of the same crate: the AY-5-1013 (ay51013/chip.rs, *)
(* ay51013/pins.rs) and the CDP1854 (cdp1854.rs), each driven as its own   *)
(* tests drive it (ay51013/tests.rs, cdp1854/tests.rs).                    *)
(***************************************************************************)
EXTENDS Integers, Naturals, Sequences, FiniteSets, TLC

VARIABLES
    cpu,        \* the Cdp1802
    chip,       \* the UART under test: an Ay51013 or a Cdp1854
    peer,       \* a second Cdp1854 with its pins, fed bit-serially
    board,      \* the rest of a system: the front panel, the event log
    pins,       \* the pin bundle of the chip under test
    mem,        \* the Memory
    pc,         \* the position of the scenario being run
    clk,        \* the number of ticks applied
    last_mode,  \* the mode the pins selected in the last tick
    arg,        \* the input of the scenario: a device byte, a decoder input
    ret         \* the value the last call returned

vars == <<cpu, chip, peer, board, pins, mem, pc, clk, last_mode, arg, ret>>

(***************************************************************************)
(* Bounds of the exploration.                                              *)
(***************************************************************************)
\* DMA requests are raised only while R[0] is below this address.
MaxDma == 4
\* Number of Run ticks the test scenario applies after its set-up.
MaxRun == 48

(***************************************************************************)
(* Integer helpers for u8 / u16 arithmetic.                                *)
(***************************************************************************)

RECURSIVE BitOp(_, _, _, _)
\* Bitwise combination of the low `w` bits of x and y; op is "or", "and" or "xor".
BitOp(op, x, y, w) ==
    IF w = 0 THEN 0
    ELSE LET a == x % 2
             b == y % 2
             bit == CASE op = "or"  -> IF a + b > 0 THEN 1 ELSE 0
                      [] op = "and" -> IF a + b = 2 THEN 1 ELSE 0
                      [] OTHER      -> IF a # b THEN 1 ELSE 0
         IN bit + 2 * BitOp(op, x \div 2, y \div 2, w - 1)

\* math::add
add(x, y) == <<(x + y) % 256, x + y > 255>>

\* math::addc
addc(x, y, df) ==
    LET s1 == add(x, y)
        s2 == add(s1[1], IF df THEN 1 ELSE 0)
    IN <<s2[1], s1[2] \/ s2[2]>>

\* math::sub
sub(x, y) == <<(x - y + 256) % 256, ~(x < y)>>

\* math::subc
subc(x, y, df) ==
    LET s1 == sub(x, y)
        s2 == sub(s1[1], IF df THEN 1 ELSE 0)
    IN <<s2[1], s1[2] /\ s2[2]>>

(***************************************************************************)
(* Modes and machine-cycle states.                                         *)
(***************************************************************************)
Modes == {"Load", "Reset", "Pause", "Run"}

\* fn mode(pins)
mode(p) ==
    CASE ~p.clear /\ ~p.wait -> "Load"
      [] ~p.clear /\  p.wait -> "Reset"
      []  p.clear /\ ~p.wait -> "Pause"
      []  p.clear /\  p.wait -> "Run"

Kinds == {"Init", "Fetch", "Execute", "DmaIn", "DmaOut", "Interrupt"}

State(k, t) == [k |-> k, t |-> t]

\* Option<State>::None
None == [k |-> "None", t |-> 0]

unwrap_or(o, dflt) == IF o = None THEN dflt ELSE o

\* State::as_sc
as_sc(s) ==
    CASE s.k = "Fetch" -> 0
      [] s.k \in {"Init", "Execute"} -> 1
      [] s.k \in {"DmaIn", "DmaOut"} -> 2
      [] s.k = "Interrupt" -> 3

(***************************************************************************)
(* Pin bundle.  The u64 bit field is modelled by its named slices.         *)
(***************************************************************************)
\* Cdp1802Pins(0) restricted to the bus and output pins (mask_bus_out).
OutZero ==
    [bus |-> 0, ma |-> 0, n |-> 0, q |-> FALSE, mrd |-> FALSE, mwr |-> FALSE,
     tpb |-> FALSE, tpa |-> FALSE, sc |-> 0]

\* Cdp1802Pins::default() restricted to the bus and output pins.
OutDefault ==
    [bus |-> 255, ma |-> 255, n |-> 7, q |-> TRUE, mrd |-> TRUE, mwr |-> TRUE,
     tpb |-> TRUE, tpa |-> TRUE, sc |-> 3]

\* Cdp1802Pins(Cdp1802Pins::mask_all()): every pin high.
PinsAllHigh ==
    [bus |-> 255, ma |-> 255, n |-> 7, q |-> TRUE, mrd |-> TRUE, mwr |-> TRUE,
     tpb |-> TRUE, tpa |-> TRUE, sc |-> 3,
     dma_in |-> TRUE, dma_out |-> TRUE, intr |-> TRUE, ef |-> 15,
     clear |-> TRUE, wait |-> TRUE]

\* Cdp1802Pins::set_masked with mask_bus_out() (bus = TRUE) or mask_out().
set_masked(p, out, bus) ==
    [p EXCEPT !.bus = IF bus THEN out.bus ELSE @,
              !.ma = out.ma, !.n = out.n, !.q = out.q, !.mrd = out.mrd,
              !.mwr = out.mwr, !.tpb = out.tpb, !.tpa = out.tpa, !.sc = out.sc]

(***************************************************************************)
(* Register helpers.                                                       *)
(***************************************************************************)
glo(c, n) == c.r[n] % 256

ghi(c, n) == c.r[n] \div 256

plo(c, n, d) == [c EXCEPT !.r[n] = (@ \div 256) * 256 + d]

phi(c, n, d) == [c EXCEPT !.r[n] = (@ % 256) + d * 256]

dec(c, n) == [c EXCEPT !.r[n] = (@ + 65535) % 65536]

\* Mutant of inc: an 8-bit increment that never carries into the high byte.
inc_page(c, n) == [c EXCEPT !.r[n] = (@ \div 256) * 256 + ((@ + 1) % 256)]

inc(c, n) == [c EXCEPT !.r[n] = (@ + 1) % 65536]

\* unreachable!(): the process aborts.
panic(c) == [c EXCEPT !.fault = TRUE]

\* Mutant of tick_mrd: MRD is never lowered, so the memory never answers.
tick_mrd_no_strobe(c, tick, n) ==
    CASE tick = 0 -> [c EXCEPT !.out.ma = ghi(c, n)]
      [] tick = 2 -> [c EXCEPT !.out.ma = glo(c, n)]
      [] OTHER -> panic(c)

\* Cdp1802::tick_mrd
tick_mrd(c, tick, n) ==
    CASE tick = 0 -> [c EXCEPT !.out.ma = ghi(c, n)]
      [] tick = 2 -> [c EXCEPT !.out.mrd = FALSE, !.out.ma = glo(c, n)]
      [] OTHER -> panic(c)

\* Cdp1802::tick_store
tick_store(c, tick, n, value) ==
    CASE tick = 0 -> [c EXCEPT !.out.ma = ghi(c, n)]
      [] tick = 2 -> [c EXCEPT !.out.ma = glo(c, n)]
      [] tick = 3 -> [c EXCEPT !.out.bus = value]
      [] tick = 5 -> [c EXCEPT !.out.mwr = FALSE]
      [] OTHER -> c

\* Cdp1802::tick_mark
tick_mark(c, tick) ==
    CASE tick = 0 -> [c EXCEPT !.out.ma = ghi(c, 2)]
      [] tick = 2 -> [c EXCEPT !.out.ma = glo(c, 2)]
      [] tick = 3 ->
            LET t == ((c.x * 16) % 256) + (c.p % 16)
            IN dec([c EXCEPT !.t = t, !.out.bus = t, !.x = c.p], 2)
      [] tick = 5 -> [c EXCEPT !.out.mwr = FALSE]
      [] OTHER -> c

\* Cdp1802::tick_ret
tick_ret(c, p, tick, ie) ==
    CASE tick \in {0, 2} -> tick_mrd(c, tick, c.x)
      [] tick = 3 ->
            LET m == p.bus
                c1 == [c EXCEPT !.x = m \div 16, !.p = m % 16]
            IN [inc(c1, c1.x) EXCEPT !.ie = ie]
      [] OTHER -> c

\* Cdp1802::tick_add
tick_add(c, p, tick, n, carry) ==
    CASE tick \in {0, 2} -> tick_mrd(c, tick, n)
      [] tick = 3 ->
            LET m == p.bus
                res == IF carry THEN addc(c.d, m, c.df) ELSE add(c.d, m)
            IN [c EXCEPT !.d = res[1], !.df = res[2]]
      [] OTHER -> c

\* Mutant of tick_subd: the memory byte is subtracted from D.
tick_subd_swapped(c, p, tick, n, borrow) ==
    CASE tick \in {0, 2} -> tick_mrd(c, tick, n)
      [] tick = 3 ->
            LET m == p.bus
                res == IF borrow THEN subc(c.d, m, ~c.df) ELSE sub(c.d, m)
            IN [c EXCEPT !.d = res[1], !.df = res[2]]
      [] OTHER -> c

\* Cdp1802::tick_subd
tick_subd(c, p, tick, n, borrow) ==
    CASE tick \in {0, 2} -> tick_mrd(c, tick, n)
      [] tick = 3 ->
            LET m == p.bus
                res == IF borrow THEN subc(m, c.d, ~c.df) ELSE sub(m, c.d)
            IN [c EXCEPT !.d = res[1], !.df = res[2]]
      [] OTHER -> c

\* Cdp1802::tick_subm
tick_subm(c, p, tick, n, borrow) ==
    CASE tick \in {0, 2} -> tick_mrd(c, tick, n)
      [] tick = 3 ->
            LET m == p.bus
                res == IF borrow THEN subc(c.d, m, ~c.df) ELSE sub(c.d, m)
            IN [c EXCEPT !.d = res[1], !.df = res[2]]
      [] OTHER -> c

\* Cdp1802::test
test(c, n) ==
    LET k == n % 8
        br == CASE k = 0 -> TRUE
                [] k = 1 -> c.out.q
                [] k = 2 -> c.d = 0
                [] k = 3 -> c.df
                [] k = 4 -> (c.ef % 2) = 0
                [] k = 5 -> ((c.ef \div 2) % 2) = 0
                [] k = 6 -> ((c.ef \div 4) % 2) = 0
                [] k = 7 -> ((c.ef \div 8) % 2) = 0
    IN IF n \div 8 > 0 THEN ~br ELSE br

\* Cdp1802::tick_bxx
tick_bxx(c, p, tick, n) ==
    CASE tick \in {0, 2} -> tick_mrd(c, tick, c.p)
      [] tick = 1 -> [c EXCEPT !.ef = p.ef]
      [] tick = 3 -> IF test(c, n) THEN plo(c, c.p, p.bus) ELSE inc(c, c.p)
      [] OTHER -> c

\* Mutant of tick_lbxx: a taken branch writes the low byte only.
tick_lbxx_lo_only(c, p, tick, n) ==
    CASE tick \in {0, 2} -> tick_mrd(c, tick, c.p)
      [] tick = 1 -> [c EXCEPT !.ef = p.ef]
      [] tick = 3 -> inc([c EXCEPT !.b = p.bus], c.p)
      [] tick \in {8, 10} -> tick_mrd(c, tick % 8, c.p)
      [] tick = 11 -> IF test(c, n) THEN plo(c, c.p, p.bus) ELSE inc(c, c.p)
      [] OTHER -> c

\* Cdp1802::tick_lbxx
tick_lbxx(c, p, tick, n) ==
    CASE tick \in {0, 2} -> tick_mrd(c, tick, c.p)
      [] tick = 1 -> [c EXCEPT !.ef = p.ef]
      [] tick = 3 -> inc([c EXCEPT !.b = p.bus], c.p)
      [] tick \in {8, 10} -> tick_mrd(c, tick % 8, c.p)
      [] tick = 11 ->
            IF test(c, n) THEN phi(plo(c, c.p, p.bus), c.p, c.b)
            ELSE inc(c, c.p)
      [] OTHER -> c

\* Cdp1802::tick_output
tick_output(c, tick, n) ==
    CASE tick = 0 -> [c EXCEPT !.out.n = n, !.out.ma = ghi(c, c.x)]
      [] tick = 2 -> [c EXCEPT !.out.mrd = FALSE, !.out.ma = glo(c, c.x)]
      [] tick = 3 -> inc(c, c.x)
      [] tick = 7 -> [c EXCEPT !.out.n = 0]
      [] OTHER -> c

\* Cdp1802::tick_input
tick_input(c, p, tick, n) ==
    CASE tick = 0 -> [c EXCEPT !.out.n = n, !.out.ma = ghi(c, c.x)]
      [] tick = 2 -> [c EXCEPT !.out.ma = glo(c, c.x)]
      [] tick = 5 -> [c EXCEPT !.out.mwr = FALSE]
      [] tick = 6 -> [c EXCEPT !.d = p.bus]
      [] tick = 7 -> [c EXCEPT !.out.n = 0]
      [] OTHER -> c

(***************************************************************************)
(* Machine cycles.                                                         *)
(***************************************************************************)
\* Mutant of tick_reset: IE is left as it was.
tick_reset_keeps_ie(c) ==
    [c EXCEPT !.i = 0, !.n = 0, !.state = State("Init", 0),
              !.out = [OutZero EXCEPT !.mrd = TRUE, !.mwr = TRUE,
                                      !.sc = as_sc(State("Init", 0))]]

\* Cdp1802::tick_reset
tick_reset(c) ==
    [c EXCEPT !.i = 0, !.n = 0, !.ie = TRUE, !.state = State("Init", 0),
              !.out = [OutZero EXCEPT !.mrd = TRUE, !.mwr = TRUE,
                                      !.sc = as_sc(State("Init", 0))]]

\* Mutant of tick_timing_pulses: TPA is raised whether or not it is enabled.
tick_timing_pulses_always_tpa(c, enable_tpa) ==
    LET t == c.state.t % 8
    IN IF t = 0 THEN [c EXCEPT !.out.sc = as_sc(c.state), !.out.mrd = TRUE]
       ELSE IF t = 1 THEN [c EXCEPT !.out.tpa = TRUE]
       ELSE IF t = 2 THEN [c EXCEPT !.out.tpa = FALSE]
       ELSE IF t = 6 THEN [c EXCEPT !.out.tpb = TRUE]
       ELSE IF t = 7 THEN [c EXCEPT !.out.mwr = TRUE, !.out.tpb = FALSE]
       ELSE c

\* Mutant of tick_timing_pulses: MRD is not raised at the start of a cycle.
tick_timing_pulses_mrd_held(c, enable_tpa) ==
    LET t == c.state.t % 8
    IN IF t = 0 THEN [c EXCEPT !.out.sc = as_sc(c.state)]
       ELSE IF t = 1 /\ enable_tpa THEN [c EXCEPT !.out.tpa = TRUE]
       ELSE IF t = 2 THEN [c EXCEPT !.out.tpa = FALSE]
       ELSE IF t = 6 THEN [c EXCEPT !.out.tpb = TRUE]
       ELSE IF t = 7 THEN [c EXCEPT !.out.mwr = TRUE, !.out.tpb = FALSE]
       ELSE c

\* Cdp1802::tick_timing_pulses
tick_timing_pulses(c, enable_tpa) ==
    LET t == c.state.t % 8
    IN IF t = 0 THEN [c EXCEPT !.out.sc = as_sc(c.state), !.out.mrd = TRUE]
       ELSE IF t = 1 /\ enable_tpa THEN [c EXCEPT !.out.tpa = TRUE]
       ELSE IF t = 2 THEN [c EXCEPT !.out.tpa = FALSE]
       ELSE IF t = 6 THEN [c EXCEPT !.out.tpb = TRUE]
       ELSE IF t = 7 THEN [c EXCEPT !.out.mwr = TRUE, !.out.tpb = FALSE]
       ELSE c

\* Cdp1802::tick_init
tick_init(c, tick) ==
    IF tick = 1 THEN [c EXCEPT !.x = 0, !.p = 0, !.r[0] = 0] ELSE c

\* Mutant of tick_fetch: R[P] is incremented after IDL too.
tick_fetch_always_inc(c, tick, p) ==
    CASE tick \in {0, 2} -> tick_mrd(c, tick, c.p)
      [] tick = 3 -> inc([c EXCEPT !.i = p.bus \div 16, !.n = p.bus % 16], c.p)
      [] OTHER -> c

\* Cdp1802::tick_fetch
tick_fetch(c, tick, p) ==
    CASE tick \in {0, 2} -> tick_mrd(c, tick, c.p)
      [] tick = 3 ->
            LET inst == p.bus
                c1 == [c EXCEPT !.i = inst \div 16, !.n = inst % 16]
            IN IF inst # 0 THEN inc(c1, c1.p) ELSE c1
      [] OTHER -> c

\* Arms of Cdp1802::tick_execute that read memory into D (LDN, LDA, LDXA, LDX, LDI).
exec_load(c, p, t, reg, post) ==
    CASE t \in {0, 2} -> tick_mrd(c, t, reg)
      [] t = 3 -> [c EXCEPT !.d = p.bus]
      [] t = 4 /\ post -> inc(c, reg)
      [] OTHER -> c

\* Arms of Cdp1802::tick_execute for OR/AND/XOR (imm = FALSE) and ORI/ANI/XRI.
exec_logic(c, p, t, op, imm) ==
    CASE t \in {0, 2} -> tick_mrd(c, t, IF imm THEN c.p ELSE c.x)
      [] t = 3 ->
            LET c1 == [c EXCEPT !.d = BitOp(op, c.d, p.bus, 8)]
            IN IF imm THEN inc(c1, c1.p) ELSE c1
      [] OTHER -> c

\* Arms of Cdp1802::tick_execute for SHR, SHL, SHRC and SHLC.
exec_shift(c, t, left, carry) ==
    IF t # 3 THEN c
    ELSE LET cin == carry /\ c.df
         IN IF left
            THEN [c EXCEPT !.d = ((c.d * 2) % 256) + (IF cin THEN 1 ELSE 0),
                           !.df = c.d \div 128 # 0]
            ELSE [c EXCEPT !.d = (c.d \div 2) + (IF cin THEN 128 ELSE 0),
                           !.df = c.d % 2 # 0]

\* Arms of Cdp1802::tick_execute with I = 7.
exec_7(c, p, t) ==
    LET n == c.n
    IN CASE n = 0 -> tick_ret(c, p, t, TRUE)
         [] n = 1 -> tick_ret(c, p, t, FALSE)
         [] n = 2 -> exec_load(c, p, t, c.x, TRUE)
         [] n = 3 -> IF t = 4 THEN dec(c, c.x) ELSE tick_store(c, t, c.x, c.d)
         [] n = 4 -> tick_add(c, p, t, c.x, TRUE)
         [] n = 5 -> tick_subd(c, p, t, c.x, TRUE)
         [] n = 6 -> exec_shift(c, t, FALSE, TRUE)
         [] n = 7 -> tick_subm(c, p, t, c.x, TRUE)
         [] n = 8 -> tick_store(c, t, c.x, c.t)
         [] n = 9 -> tick_mark(c, t)
         [] n \in {10, 11} -> IF t = 3 THEN [c EXCEPT !.out.q = (n % 2 # 0)] ELSE c
         [] n = 12 -> IF t = 4 THEN inc(c, c.p) ELSE tick_add(c, p, t, c.p, TRUE)
         [] n = 13 -> IF t = 4 THEN inc(c, c.p) ELSE tick_subd(c, p, t, c.p, TRUE)
         [] n = 14 -> exec_shift(c, t, TRUE, TRUE)
         [] n = 15 -> IF t = 4 THEN inc(c, c.p) ELSE tick_subm(c, p, t, c.p, TRUE)

\* Arms of Cdp1802::tick_execute with I = 0xF.
exec_f(c, p, t) ==
    LET n == c.n
    IN CASE n = 0 -> exec_load(c, p, t, c.x, FALSE)
         [] n = 1 -> exec_logic(c, p, t, "or", FALSE)
         [] n = 2 -> exec_logic(c, p, t, "and", FALSE)
         [] n = 3 -> exec_logic(c, p, t, "xor", FALSE)
         [] n = 4 -> tick_add(c, p, t, c.x, FALSE)
         [] n = 5 -> tick_subd(c, p, t, c.x, FALSE)
         [] n = 6 -> exec_shift(c, t, FALSE, FALSE)
         [] n = 7 -> tick_subm(c, p, t, c.x, FALSE)
         [] n = 8 -> exec_load(c, p, t, c.p, TRUE)
         [] n = 9 -> exec_logic(c, p, t, "or", TRUE)
         [] n = 10 -> exec_logic(c, p, t, "and", TRUE)
         [] n = 11 -> exec_logic(c, p, t, "xor", TRUE)
         [] n = 12 -> IF t = 4 THEN inc(c, c.p) ELSE tick_add(c, p, t, c.p, FALSE)
         [] n = 13 -> IF t = 4 THEN inc(c, c.p) ELSE tick_subd(c, p, t, c.p, FALSE)
         [] n = 14 -> exec_shift(c, t, TRUE, FALSE)
         [] n = 15 -> IF t = 4 THEN inc(c, c.p) ELSE tick_subm(c, p, t, c.p, FALSE)

\* Cdp1802::tick_execute
tick_execute(c, t, p) ==
    LET i == c.i
        n == c.n
    IN CASE i = 0 /\ n = 0 -> IF t \in {0, 2} THEN tick_mrd(c, t, 0) ELSE c
         [] i = 0 /\ n # 0 -> exec_load(c, p, t, n, FALSE)
         [] i = 1 -> IF t = 4 THEN inc(c, n) ELSE c
         [] i = 2 -> IF t = 4 THEN dec(c, n) ELSE c
         [] i = 3 -> tick_bxx(c, p, t, n)
         [] i = 4 -> exec_load(c, p, t, n, TRUE)
         [] i = 5 -> tick_store(c, t, n, c.d)
         [] i = 6 /\ n = 0 -> IF t = 4 THEN inc(c, c.x) ELSE c
         [] i = 6 /\ n \in 1..7 -> tick_output(c, t, n)
         [] i = 6 /\ n = 8 -> c
         [] i = 6 /\ n \in 9..15 -> tick_input(c, p, t, n - 8)
         [] i = 7 -> exec_7(c, p, t)
         [] i = 8 -> IF t = 3 THEN [c EXCEPT !.d = glo(c, n)] ELSE c
         [] i = 9 -> IF t = 3 THEN [c EXCEPT !.d = ghi(c, n)] ELSE c
         [] i = 10 -> IF t = 3 THEN plo(c, n, c.d) ELSE c
         [] i = 11 -> IF t = 3 THEN phi(c, n, c.d) ELSE c
         [] i = 12 -> IF n = 4 THEN c ELSE tick_lbxx(c, p, t, n)
         [] i = 13 -> IF t = 3 THEN [c EXCEPT !.p = n] ELSE c
         [] i = 14 -> IF t = 3 THEN [c EXCEPT !.x = n] ELSE c
         [] i = 15 -> exec_f(c, p, t)

\* Cdp1802::tick_dma_in
tick_dma_in(c, tick) ==
    CASE tick = 0 -> [c EXCEPT !.out.ma = ghi(c, 0)]
      [] tick = 2 -> [c EXCEPT !.out.ma = glo(c, 0)]
      [] tick = 4 -> inc(c, 0)
      [] tick = 5 -> [c EXCEPT !.out.mwr = FALSE]
      [] OTHER -> c

\* Cdp1802::tick_dma_out
tick_dma_out(c, tick) ==
    CASE tick \in {0, 2} -> tick_mrd(c, tick, 0)
      [] tick = 4 -> inc(c, 0)
      [] OTHER -> c

\* Mutant of tick_interrupt: T latches P in the high nibble and X in the low.
tick_interrupt_swapped(c, tick) ==
    IF tick = 0
    THEN [c EXCEPT !.t = ((c.p * 16) % 256) + (c.x % 16),
                   !.x = 2, !.p = 1, !.ie = FALSE]
    ELSE c

\* Mutant of tick_interrupt: IE is left as it was.
tick_interrupt_keeps_ie(c, tick) ==
    IF tick = 0
    THEN [c EXCEPT !.t = ((c.x * 16) % 256) + (c.p % 16), !.x = 2, !.p = 1]
    ELSE c

\* Cdp1802::tick_interrupt
tick_interrupt(c, tick) ==
    IF tick = 0
    THEN [c EXCEPT !.t = ((c.x * 16) % 256) + (c.p % 16),
                   !.x = 2, !.p = 1, !.ie = FALSE]
    ELSE c

\* Mutant of sample_dma_intr: DMA-Out is served before DMA-In.
sample_dma_intr_out_first(p, ie) ==
    IF ~p.dma_out THEN State("DmaOut", 0)
    ELSE IF ~p.dma_in THEN State("DmaIn", 0)
    ELSE IF ~p.intr /\ ie THEN State("Interrupt", 0)
    ELSE None

\* Mutant of sample_dma_intr: INTR is honoured whatever the enable passed in.
sample_dma_intr_ignores_ie(p, ie) ==
    IF ~p.dma_in THEN State("DmaIn", 0)
    ELSE IF ~p.dma_out THEN State("DmaOut", 0)
    ELSE IF ~p.intr THEN State("Interrupt", 0)
    ELSE None

\* Mutant of sample_dma_intr: INTR is never honoured.
sample_dma_intr_never_intr(p, ie) ==
    IF ~p.dma_in THEN State("DmaIn", 0)
    ELSE IF ~p.dma_out THEN State("DmaOut", 0)
    ELSE None

\* Cdp1802::sample_dma_intr
sample_dma_intr(p, ie) ==
    LET dma_in == ~p.dma_in
        dma_out == ~p.dma_out
        intr == ~p.intr
    IN IF dma_in THEN State("DmaIn", 0)
       ELSE IF dma_out THEN State("DmaOut", 0)
       ELSE IF intr /\ ie THEN State("Interrupt", 0)
       ELSE None

\* Mutant of tick_load: the cycle is processed whatever the previous mode was.
tick_load_no_reset(c, p) ==
    LET c1 == tick_timing_pulses(c, c.state.k = "DmaIn")
        s == c1.state
        c2 == CASE s.k = "Init" -> tick_init(c1, s.t)
                [] s.k = "DmaIn" -> tick_dma_in(c1, s.t)
                [] s.k = "Execute" /\ s.t = 2 ->
                      LET addr == glo(c1, c1.p)
                      IN IF addr > 0
                         THEN [c1 EXCEPT !.out.mrd = FALSE,
                                         !.out.ma = (addr + 255) % 256]
                         ELSE c1
                [] s.k = "Execute" /\ s.t # 2 -> c1
                [] OTHER -> panic(c1)
    IN IF c2.fault THEN c2
       ELSE [c2 EXCEPT !.state =
               IF (s.k = "Init" /\ s.t = 8) \/ (s.k = "Execute" /\ s.t = 7)
                    \/ (s.k = "DmaIn" /\ s.t = 7)
               THEN IF ~p.dma_in THEN State("DmaIn", 0) ELSE State("Execute", 0)
               ELSE State(s.k, s.t + 1)]

\* Cdp1802::tick_load
tick_load(c, p) ==
    IF c.prev_mode \in {"Pause", "Run"} THEN tick_reset(c)
    ELSE
      LET c1 == tick_timing_pulses(c, c.state.k = "DmaIn")
          s == c1.state
          c2 == CASE s.k = "Init" -> tick_init(c1, s.t)
                  [] s.k = "DmaIn" -> tick_dma_in(c1, s.t)
                  [] s.k = "Execute" /\ s.t = 2 ->
                        LET addr == glo(c1, c1.p)
                        IN IF addr > 0
                           THEN [c1 EXCEPT !.out.mrd = FALSE,
                                           !.out.ma = (addr + 255) % 256]
                           ELSE c1
                  [] s.k = "Execute" /\ s.t # 2 -> c1
                  [] OTHER -> panic(c1)
      IN IF c2.fault THEN c2
         ELSE [c2 EXCEPT !.state =
                 IF (s.k = "Init" /\ s.t = 8) \/ (s.k = "Execute" /\ s.t = 7)
                      \/ (s.k = "DmaIn" /\ s.t = 7)
                 THEN IF ~p.dma_in THEN State("DmaIn", 0) ELSE State("Execute", 0)
                 ELSE State(s.k, s.t + 1)]

\* Mutant of run_next_state: every Execute cycle but IDL's runs 16 sub-ticks.
run_next_state_exec16(c, p) ==
    LET s == c.state
    IN [c EXCEPT !.state =
       IF s.k = "Init" /\ s.t = 8
       THEN unwrap_or(sample_dma_intr(p, FALSE), State("Fetch", 0))
       ELSE IF s.k = "Execute" /\ s.t = 7 /\ c.i = 0 /\ c.n = 0
       THEN unwrap_or(sample_dma_intr(p, c.ie), State("Execute", 0))
       ELSE IF (s.k = "Execute" /\ s.t = 15)
                \/ (s.k \in {"DmaIn", "DmaOut", "Interrupt"} /\ s.t = 7)
       THEN unwrap_or(sample_dma_intr(p, c.ie), State("Fetch", 0))
       ELSE IF s.k = "Fetch" /\ s.t = 7 THEN State("Execute", 0)
       ELSE State(s.k, s.t + 1)]

\* Mutant of run_next_state: IDL ends its Execute cycle like any other opcode
\* and goes back to Fetch.
run_next_state_idl_fetch(c, p) ==
    LET s == c.state
    IN [c EXCEPT !.state =
       IF s.k = "Init" /\ s.t = 8
       THEN unwrap_or(sample_dma_intr(p, FALSE), State("Fetch", 0))
       ELSE IF (s.k = "Execute" /\ s.t = 7 /\ c.i # 12)
                \/ (s.k = "Execute" /\ s.t = 15)
                \/ (s.k \in {"DmaIn", "DmaOut", "Interrupt"} /\ s.t = 7)
       THEN unwrap_or(sample_dma_intr(p, c.ie), State("Fetch", 0))
       ELSE IF s.k = "Fetch" /\ s.t = 7 THEN State("Execute", 0)
       ELSE State(s.k, s.t + 1)]

\* The state transition at the end of Cdp1802::tick_run.
run_next_state(c, p) ==
    LET s == c.state
    IN [c EXCEPT !.state =
       IF s.k = "Init" /\ s.t = 8
       THEN unwrap_or(sample_dma_intr(p, FALSE), State("Fetch", 0))
       ELSE IF s.k = "Execute" /\ s.t = 7 /\ c.i = 0 /\ c.n = 0
       THEN unwrap_or(sample_dma_intr(p, c.ie), State("Execute", 0))
       ELSE IF s.k = "Execute" /\ s.t = 7 /\ c.i # 12
       THEN unwrap_or(sample_dma_intr(p, c.ie), State("Fetch", 0))
       ELSE IF (s.k = "Execute" /\ s.t = 15)
                \/ (s.k \in {"DmaIn", "DmaOut", "Interrupt"} /\ s.t = 7)
       THEN unwrap_or(sample_dma_intr(p, c.ie), State("Fetch", 0))
       ELSE IF s.k = "Fetch" /\ s.t = 7 THEN State("Execute", 0)
       ELSE State(s.k, s.t + 1)]

\* Cdp1802::tick_run
tick_run(c, p) ==
    LET c1 == tick_timing_pulses(c, TRUE)
        s == c.state
    IN run_next_state(
           CASE s.k = "Init" -> tick_init(c1, s.t)
             [] s.k = "Fetch" -> tick_fetch(c1, s.t, p)
             [] s.k = "Execute" -> tick_execute(c1, s.t, p)
             [] s.k = "DmaIn" -> tick_dma_in(c1, s.t)
             [] s.k = "DmaOut" -> tick_dma_out(c1, s.t)
             [] s.k = "Interrupt" -> tick_interrupt(c1, s.t),
           p)

\* Mutant of update_pins: the bus is driven during INP like in any write cycle.
update_pins_drives_inp(c, p) ==
    set_masked(p, c.out, c.state.k = "Init" \/ ~c.out.mwr)

\* Cdp1802::update_pins
update_pins(c, p) ==
    LET init == c.state.k = "Init"
        mwr == ~c.out.mwr
        inp == c.state.k = "Execute" /\ c.i = 6 /\ c.n >= 9
    IN set_masked(p, c.out, init \/ (mwr /\ ~inp))

\* The tail of Cdp1802::tick: the mode is recorded and the pins are updated.
\* A CPU that has aborted does neither.
tick_done(c, m, p) ==
    IF c.fault THEN [cpu |-> c, pins |-> p]
    ELSE [cpu |-> [c EXCEPT !.prev_mode = m],
          pins |-> update_pins([c EXCEPT !.prev_mode = m], p)]

\* Cdp1802::tick: the CPU and the pin bundle after one tick.
tick(c, p) ==
    LET m == mode(p)
    IN IF m = "Pause" THEN [cpu |-> c, pins |-> p]
       ELSE tick_done(CASE m = "Reset" -> tick_reset(c)
                        [] m = "Load" -> tick_load(c, p)
                        [] m = "Run" -> tick_run(c, p),
                      m, p)

\* Cdp1802::is_waiting
is_waiting(c, p) ==
    LET dma_intr == ~p.dma_in \/ ~p.dma_out \/ ~p.intr
        m == mode(p)
    IN CASE m = "Load" -> c.state = State("Execute", 7) /\ ~dma_intr
         [] m = "Reset" -> c.state = State("Init", 0)
         [] m = "Pause" -> TRUE
         [] m = "Run" ->
              c.state = State("Execute", 7) /\ c.i = 0 /\ c.n = 0 /\ ~dma_intr

\* Cdp1802::rp
rp(c) == c.r[c.p]

(***************************************************************************)
(* Memory.  `data` holds the non-zero bytes of the 64 KiB array.           *)
(***************************************************************************)
\* self.data[addr]
mem_read(data, addr) == IF addr \in DOMAIN data THEN data[addr] ELSE 0

\* self.data[addr] = v
mem_write(data, addr, v) ==
    IF v = 0 THEN [a \in DOMAIN data \ {addr} |-> data[a]]
    ELSE [a \in DOMAIN data \cup {addr} |-> IF a = addr THEN v ELSE data[a]]

\* Memory::is_writable
is_writable(m, addr) ==
    ~\E k \in 1..Len(m.write_protect) :
        m.write_protect[k][1] <= addr /\ addr <= m.write_protect[k][2]

\* Mutant of mem_tick: a write is stored whatever the write-protect ranges say.
mem_tick_no_protect(m, p, write_enable) ==
    LET hi == IF p.tpa THEN p.ma ELSE m.addr_hi
        m1 == [m EXCEPT !.addr_hi = hi]
        addr == hi * 256 + p.ma
    IN IF ~p.mrd
       THEN [mem |-> m1, pins |-> [p EXCEPT !.bus = mem_read(m.data, addr)],
             res |-> <<"Read", addr>>]
       ELSE IF write_enable /\ ~p.mwr
       THEN [mem |-> [m1 EXCEPT !.data = mem_write(m.data, addr, p.bus)],
             pins |-> p, res |-> <<"Write", addr>>]
       ELSE [mem |-> m1, pins |-> p, res |-> <<"None", 0>>]

\* Mutant of mem_tick: the high address byte is latched on every tick.
mem_tick_latch_always(m, p, write_enable) ==
    LET m1 == [m EXCEPT !.addr_hi = p.ma]
        addr == p.ma * 256 + p.ma
    IN IF ~p.mrd
       THEN [mem |-> m1, pins |-> [p EXCEPT !.bus = mem_read(m.data, addr)],
             res |-> <<"Read", addr>>]
       ELSE IF write_enable /\ ~p.mwr
       THEN IF ~is_writable(m, addr)
            THEN [mem |-> m1, pins |-> p, res |-> <<"WriteProtectionFault", addr>>]
            ELSE [mem |-> [m1 EXCEPT !.data = mem_write(m.data, addr, p.bus)],
                  pins |-> p, res |-> <<"Write", addr>>]
       ELSE [mem |-> m1, pins |-> p, res |-> <<"None", 0>>]

\* Memory::tick: the memory, the pin bundle and the result of one tick.
mem_tick(m, p, write_enable) ==
    LET hi == IF p.tpa THEN p.ma ELSE m.addr_hi
        m1 == [m EXCEPT !.addr_hi = hi]
        addr == hi * 256 + p.ma
    IN IF ~p.mrd
       THEN [mem |-> m1, pins |-> [p EXCEPT !.bus = mem_read(m.data, addr)],
             res |-> <<"Read", addr>>]
       ELSE IF write_enable /\ ~p.mwr
       THEN IF ~is_writable(m, addr)
            THEN [mem |-> m1, pins |-> p, res |-> <<"WriteProtectionFault", addr>>]
            ELSE [mem |-> [m1 EXCEPT !.data = mem_write(m.data, addr, p.bus)],
                  pins |-> p, res |-> <<"Write", addr>>]
       ELSE [mem |-> m1, pins |-> p, res |-> <<"None", 0>>]

\* Memory::new after Builder::with_image(0, image).build()
Memory(image, write_protect) ==
    [data |-> [a \in {k - 1 : k \in {j \in 1..Len(image) : image[j] # 0}}
                 |-> image[a + 1]],
     write_protect |-> write_protect, addr_hi |-> 0]

\* Cdp1802::default()
CpuDefault ==
    [state |-> State("Init", 0), d |-> 0, df |-> FALSE, b |-> 0,
     r |-> [k \in 0..15 |-> 0], p |-> 0, x |-> 0, i |-> 0, n |-> 0, t |-> 0,
     ie |-> TRUE, out |-> OutDefault, ef |-> 0, prev_mode |-> "Reset",
     fault |-> FALSE]

\* The second half of TestSystem::tick: mem.tick(pins, write_enable) on the
\* pins the CPU left; its result is dropped by .ok().
sys_mem_tick(a, m) ==
    LET b == mem_tick(m, a.pins, TRUE)
    IN [cpu |-> a.cpu, pins |-> b.pins, mem |-> b.mem]

\* TestSystem::tick: cpu.tick(pins) then mem.tick(pins, write_enable).
sys_tick(c, p, m) == sys_mem_tick(tick(c, p), m)

RECURSIVE tick_n(_, _)
\* TestSystem::tick_n
tick_n(sys, n) ==
    IF n = 0 THEN sys ELSE tick_n(sys_tick(sys.cpu, sys.pins, sys.mem), n - 1)

\* TestSystem::reset: one tick with CLEAR low, then nine ticks with CLEAR high.
reset(sys) ==
    LET s1 == sys_tick(sys.cpu, [sys.pins EXCEPT !.clear = FALSE], sys.mem)
    IN tick_n([s1 EXCEPT !.pins.clear = TRUE], 9)

(***************************************************************************)
(* SpecTest: the scenarios of cdp1802/tests.rs.  A test system is built    *)
(* over a program; it is either ticked from power-on (test_init) or reset, *)
(* set up by the test's callback and then ticked in Run mode.              *)
(***************************************************************************)
LongOps == 192..207

Operands == {<<85, 170>>, <<255, 255>>}

\* The program of test_lbr_at_page_boundary.
PageProgram ==
    [k \in 1..513 |-> CASE k = 1 -> 192 [] k = 2 -> 1 [] k = 3 -> 254
                        [] k = 511 -> 192 [] k = 512 -> 85 [] k = 513 -> 170
                        [] OTHER -> 0]

TestPrograms ==
    {<<op, o[1], o[2]>> : op \in LongOps, o \in Operands} \cup {PageProgram, <<>>}

\* The EF pin values a test may hold while the program runs.
EfValues == {15, 0}

InitTest ==
    /\ peer = <<>>
    /\ board = <<>>
    /\ chip = <<>>
    /\ cpu = CpuDefault
    /\ pins = PinsAllHigh
    /\ \E prog \in TestPrograms : mem = Memory(prog, <<>>)
    /\ pc = "new"
    /\ clk = 0
    /\ last_mode = "None"
    /\ arg = 0
    /\ ret = 0

\* sys.reset()
TestReset ==
    /\ pc = "new"
    /\ \E s \in {reset([cpu |-> cpu, pins |-> pins, mem |-> mem])} :
          /\ cpu' = s.cpu
          /\ pins' = s.pins
          /\ mem' = s.mem
    /\ pc' = "setup"
    /\ last_mode' = "Run"
    /\ UNCHANGED <<board, peer, chip, clk, arg, ret>>

\* cb(&mut sys): the test presets Q, D, DF, IE and the EF pins.
TestSetup ==
    /\ pc = "setup"
    /\ \E q \in BOOLEAN, d \in {0, 1}, df \in BOOLEAN, ie \in BOOLEAN, ef \in EfValues :
          /\ cpu' = [cpu EXCEPT !.out.q = q, !.d = d, !.df = df, !.ie = ie]
          /\ pins' = [pins EXCEPT !.ef = ef]
    /\ pc' = "run"
    /\ UNCHANGED <<board, peer, chip, mem, clk, last_mode, arg, ret>>

\* sys.tick() in Run mode, after the set-up (pc = "run") or from power-on.
TestTick ==
    /\ pc \in {"new", "poweron", "run"}
    /\ pc = "new" => mem.data = <<>>
    /\ clk < MaxRun
    /\ ~cpu.fault
    /\ \E s \in {sys_tick(cpu, pins, mem)} :
          /\ cpu' = s.cpu
          /\ pins' = s.pins
          /\ mem' = s.mem
    /\ pc' = IF pc = "new" THEN "poweron" ELSE pc
    /\ clk' = clk + 1
    /\ last_mode' = mode(pins)
    /\ UNCHANGED <<board, peer, chip, arg, ret>>

NextTest == TestReset \/ TestSetup \/ TestTick

SpecTest == InitTest /\ [][NextTest]_vars

(***************************************************************************)
(* Free-running system: on every tick the environment chooses the mode     *)
(* pins (CLEAR, WAIT) and the request pins (DMAIN, DMAOUT, INTR), then the *)
(* CPU and the memory tick.                                                *)
(*   Spec    starts from the default-constructed CPU and explores every    *)
(*           state it can reach.                                           *)
(*   SpecAny starts from an arbitrary CPU (the random sample the tests     *)
(*           draw) whose first tick is a Reset tick, as in                 *)
(*           test_reset_to_run and test_reset_to_load.                     *)
(***************************************************************************)
\* Number of ticks explored after the first Reset tick of an arbitrary CPU.
MaxAnyClk == 12

\* SEQ, then a long branch back to address 0.  The image is loaded
\* write-protected (Builder::with_image_args), the rest of the memory is RAM.
FreePrograms == {<<123, 192, 0, 0>>}

\* The sub-ticks at which the CPU reads the request pins: the last sub-tick
\* of a cycle (sample_dma_intr in tick_run, the DMAIN test in tick_load).
\* From the default CPU the environment raises requests only there; at any
\* other sub-tick their value is never read.
SampleTicks == {7, 8, 15}

\* impl Distribution<Cdp1802> for StandardUniform: a sample of its range.
RandomCpus ==
    {[state |-> State(k, t), d |-> 165, df |-> TRUE, b |-> 90,
      r |-> [j \in 0..15 |-> rv], p |-> pv, x |-> xv, i |-> op \div 16, n |-> op % 16,
      t |-> 60, ie |-> iev, out |-> [o EXCEPT !.q = qv], ef |-> 9,
      prev_mode |-> "Reset", fault |-> FALSE] :
        k \in Kinds, t \in {0, 7, 15}, rv \in {0, 4660},
        pv \in {0, 3}, xv \in {0, 7}, op \in {0, 201},
        iev \in BOOLEAN, qv \in BOOLEAN,
        o \in {OutZero, [OutDefault EXCEPT !.mrd = FALSE]}}

Init ==
    /\ peer = <<>>
    /\ board = <<>>
    /\ chip = <<>>
    /\ cpu = CpuDefault
    /\ pins = PinsAllHigh
    /\ \E prog \in FreePrograms : mem = Memory(prog, <<<<0, Len(prog) - 1>>>>)
    /\ pc = "ticking"
    /\ clk = 0
    /\ last_mode = "None"
    /\ arg = 0
    /\ ret = 0

InitAny ==
    /\ peer = <<>>
    /\ board = <<>>
    /\ chip = <<>>
    /\ cpu \in RandomCpus
    /\ pins = PinsAllHigh
    /\ mem = Memory(<<>>, <<>>)
    /\ pc = "random"
    /\ clk = 0
    /\ last_mode = "None"
    /\ arg = 0
    /\ ret = 0

\* One tick of the system with the input pins set to the given values.
Tick(m, dma_in, dma_out, intr) ==
    /\ pc \in {"random", "any", "ticking"}
    /\ pc = "random" => m = "Reset"
    /\ pc # "ticking" => clk < MaxAnyClk
    /\ (~dma_in \/ ~dma_out) => cpu.r[0] < MaxDma
    /\ (pc = "ticking" /\ ~(dma_in /\ dma_out /\ intr)) => cpu.state.t \in SampleTicks
    /\ ~cpu.fault
    /\ LET p == [pins EXCEPT !.clear = m \in {"Pause", "Run"},
                             !.wait = m \in {"Reset", "Run"},
                             !.dma_in = dma_in, !.dma_out = dma_out,
                             !.intr = intr]
       IN \E s \in {sys_tick(cpu, p, mem)} :
          /\ cpu' = s.cpu
          /\ pins' = s.pins
          /\ mem' = s.mem
    /\ pc' = IF pc = "random" THEN "any" ELSE pc
    /\ clk' = IF m = "Pause" \/ pc = "ticking" THEN clk ELSE clk + 1
    /\ last_mode' = m
    /\ UNCHANGED <<board, peer, chip, arg, ret>>

ResetTick == \E di, do, it \in BOOLEAN : Tick("Reset", di, do, it)

LoadTick == \E di, do, it \in BOOLEAN : Tick("Load", di, do, it)

PauseTick == \E di, do, it \in BOOLEAN : Tick("Pause", di, do, it)

RunTick == \E di, do, it \in BOOLEAN : Tick("Run", di, do, it)

Next == ResetTick \/ LoadTick \/ PauseTick \/ RunTick

Spec == Init /\ [][Next]_vars

SpecAny == InitAny /\ [][Next]_vars

(***************************************************************************)
(* SpecCycle: one instruction at a chosen address, as the tests run it.    *)
(* The memory is built with the opcode at `pcv` and a data byte at `dptr`; *)
(* the system is reset, the set-up presets the registers (P = 3, X,        *)
(* R[P] = pcv, R[X] = dptr, R[0], D, IE) and the system ticks in Run mode. *)
(* The environment raises DMAIN, DMAOUT and INTR at the sub-ticks where    *)
(* the CPU samples them, and an external device holds the byte `arg.v` on  *)
(* BUS during every tick of a DmaIn cycle and of the Execute cycle of INP. *)
(***************************************************************************)
\* Number of Run ticks explored after the set-up.
MaxCycleClk == 32

ByteSample == {0, 1, 2, 15, 16, 127, 128, 129, 254, 255}

\* Builder::build: data.splice(start..end, image) for one image.
with_image(m, addr, image) ==
    [m EXCEPT !.data =
        [a \in (DOMAIN m.data \ {addr + k - 1 : k \in 1..Len(image)})
                \cup {addr + k - 1 : k \in {j \in 1..Len(image) : image[j] # 0}}
           |-> IF a >= addr /\ a < addr + Len(image) THEN image[a - addr + 1]
               ELSE m.data[a]]]

\* The scenarios: SD over a sample of byte pairs, and IDL, INP 2 and SEQ at
\* an ordinary address and at the top of the address space.
CycleScenarios ==
    {[op |-> 245, pcv |-> 16, dptr |-> 256, r0 |-> 512, x |-> 2,
      d |-> y, m |-> xm, ie |-> TRUE, v |-> 90] : y \in ByteSample, xm \in ByteSample}
    \cup
    {[op |-> o, pcv |-> a, dptr |-> 256, r0 |-> b, x |-> xr,
      d |-> 0, m |-> 0, ie |-> e, v |-> dv] :
        o \in {0, 106, 123}, a \in {16, 65535}, b \in {512, 65535},
        xr \in {2, 5}, e \in BOOLEAN, dv \in {90, 165}}

\* TestSystem over Memory::builder().with_image(pcv, [op]).with_image(dptr, [m]).
InitCycle ==
    /\ peer = <<>>
    /\ board = <<>>
    /\ chip = <<>>
    /\ arg \in CycleScenarios
    /\ cpu = CpuDefault
    /\ pins = PinsAllHigh
    /\ mem = with_image(with_image(Memory(<<>>, <<>>), arg.pcv, <<arg.op>>),
                        arg.dptr, <<arg.m>>)
    /\ pc = "new"
    /\ clk = 0
    /\ last_mode = "None"
    /\ ret = 0

\* cb(&mut sys): the test presets the public registers of the CPU.
CycleSetup ==
    /\ pc = "setup"
    /\ cpu' = [cpu EXCEPT !.p = 3, !.x = arg.x, !.d = arg.d, !.ie = arg.ie,
                          !.r = [k \in 0..15 |->
                                   CASE k = 3 -> arg.pcv
                                     [] k = arg.x -> arg.dptr
                                     [] k = 0 -> arg.r0
                                     [] OTHER -> cpu.r[k]]]
    /\ pc' = "cycle"
    /\ UNCHANGED <<board, peer, chip, pins, mem, clk, last_mode, arg, ret>>

\* The external device drives BUS while the CPU is in a DmaIn cycle or in
\* the Execute cycle of an INP instruction.
Driving(c) ==
    c.state.k = "DmaIn" \/ (c.state.k = "Execute" /\ c.i = 6 /\ c.n >= 9)

\* The pin bundle handed to the CPU: the requests chosen by the environment
\* and the byte the device holds on BUS.
CyclePins(dma_in, dma_out, intr) ==
    [pins EXCEPT !.dma_in = dma_in, !.dma_out = dma_out, !.intr = intr,
                 !.bus = IF Driving(cpu) THEN arg.v ELSE @]

\* sys.tick() in Run mode.
CycleTick ==
    /\ pc = "cycle"
    /\ clk < MaxCycleClk
    /\ ~cpu.fault
    /\ \E di, do, it \in BOOLEAN :
          /\ ~(di /\ do /\ it) => (cpu.state.t \in SampleTicks /\ cpu.state.k # "Fetch")
          /\ \E s \in {sys_tick(cpu, CyclePins(di, do, it), mem)} :
                /\ cpu' = s.cpu
                /\ pins' = s.pins
                /\ mem' = s.mem
    /\ clk' = clk + 1
    /\ last_mode' = "Run"
    /\ UNCHANGED <<board, peer, chip, pc, arg, ret>>

NextCycle == TestReset \/ CycleSetup \/ CycleTick

SpecCycle == InitCycle /\ [][NextCycle]_vars

(***************************************************************************)
(* SpecMem: the memory alone.  On every tick the environment sets TPA, MA, *)
(* MRD, MWR and BUS and the board's write-enable to any values, then       *)
(* Memory::tick runs; `ret` is the result it returns.  `arg` records what  *)
(* the environment did: the MA it held at the last tick with TPA high      *)
(* (-1 before the first one) and the write-enable of the last tick.        *)
(***************************************************************************)
\* The values the environment puts on MA and on BUS.
MaValues == {0, 255}

BusValues == {0, 7}

\* The addresses MaValues can form.
MemAddrs == {hi * 256 + lo : hi \in MaValues, lo \in MaValues}

\* A 16-byte image at address 0, write-protected as Builder::with_image_args
\* does, and a write-protected top byte (Builder::with_write_protect_range).
ProtectedRanges == <<<<0, 15>>, <<65535, 65535>>>>

InitMem ==
    /\ peer = <<>>
    /\ board = <<>>
    /\ chip = <<>>
    /\ cpu = CpuDefault
    /\ pins = PinsAllHigh
    /\ mem = Memory(<<5, 0, 0, 0, 0, 0, 0, 0, 0, 0, 0, 0, 0, 0, 0, 9>>, ProtectedRanges)
    /\ pc = "mem"
    /\ clk = 0
    /\ last_mode = "None"
    /\ arg = [hi |-> -1, we |-> TRUE]
    /\ ret = <<"None", 0>>

\* self.mem.tick(&mut self.pins, write_enable) on pins set by the environment.
MemTick ==
    /\ pc = "mem"
    /\ \E tpa, mrd, mwr, we \in BOOLEAN, ma \in MaValues, bus \in BusValues :
          /\ \E s \in {mem_tick(mem, [pins EXCEPT !.tpa = tpa, !.ma = ma, !.mrd = mrd,
                                                  !.mwr = mwr, !.bus = bus], we)} :
                /\ mem' = s.mem
                /\ pins' = s.pins
                /\ ret' = s.res
          /\ arg' = [hi |-> IF tpa THEN ma ELSE arg.hi, we |-> we]
    /\ UNCHANGED <<board, peer, chip, cpu, pc, clk, last_mode>>

NextMem == MemTick

SpecMem == InitMem /\ [][NextMem]_vars

(***************************************************************************)
(* Instruction set.  An Instr value is a variant with its u8 fields; an    *)
(* Option<Instr> is the value itself or InstrNone.  Schemas lists the      *)
(* #[schema(..)] attribute of every variant of enum Instr as               *)
(* Schema::parse reads it: the opcode, the size and the packing ("n": the  *)
(* low nibble is the operand; "l" and "h": the operand is packed in the    *)
(* low and in the high half of the 0x6_ opcodes).                          *)
(***************************************************************************)
Instr(ident, args) == [ident |-> ident, args |-> args]

\* Option<Instr>::None
InstrNone == [ident |-> "None", args |-> <<>>]

\* enum Instr with its schemas.
Schemas ==
    <<[ident |-> "Idl", opcode |-> 0, size |-> 1, packed |-> "none"],
      [ident |-> "Ldn", opcode |-> 0, size |-> 1, packed |-> "n"],
      [ident |-> "Inc", opcode |-> 16, size |-> 1, packed |-> "n"],
      [ident |-> "Dec", opcode |-> 32, size |-> 1, packed |-> "n"],
      [ident |-> "Br", opcode |-> 48, size |-> 2, packed |-> "none"],
      [ident |-> "Bq", opcode |-> 49, size |-> 2, packed |-> "none"],
      [ident |-> "Bz", opcode |-> 50, size |-> 2, packed |-> "none"],
      [ident |-> "Bdf", opcode |-> 51, size |-> 2, packed |-> "none"],
      [ident |-> "B1", opcode |-> 52, size |-> 2, packed |-> "none"],
      [ident |-> "B2", opcode |-> 53, size |-> 2, packed |-> "none"],
      [ident |-> "B3", opcode |-> 54, size |-> 2, packed |-> "none"],
      [ident |-> "B4", opcode |-> 55, size |-> 2, packed |-> "none"],
      [ident |-> "Skp", opcode |-> 56, size |-> 1, packed |-> "none"],
      [ident |-> "Bnq", opcode |-> 57, size |-> 2, packed |-> "none"],
      [ident |-> "Bnz", opcode |-> 58, size |-> 2, packed |-> "none"],
      [ident |-> "Bnf", opcode |-> 59, size |-> 2, packed |-> "none"],
      [ident |-> "Bn1", opcode |-> 60, size |-> 2, packed |-> "none"],
      [ident |-> "Bn2", opcode |-> 61, size |-> 2, packed |-> "none"],
      [ident |-> "Bn3", opcode |-> 62, size |-> 2, packed |-> "none"],
      [ident |-> "Bn4", opcode |-> 63, size |-> 2, packed |-> "none"],
      [ident |-> "Lda", opcode |-> 64, size |-> 1, packed |-> "n"],
      [ident |-> "Str", opcode |-> 80, size |-> 1, packed |-> "n"],
      [ident |-> "Irx", opcode |-> 96, size |-> 1, packed |-> "none"],
      [ident |-> "Out", opcode |-> 96, size |-> 1, packed |-> "l"],
      [ident |-> "Resv68", opcode |-> 104, size |-> 1, packed |-> "none"],
      [ident |-> "Inp", opcode |-> 96, size |-> 1, packed |-> "h"],
      [ident |-> "Ret", opcode |-> 112, size |-> 1, packed |-> "none"],
      [ident |-> "Dis", opcode |-> 113, size |-> 1, packed |-> "none"],
      [ident |-> "Ldxa", opcode |-> 114, size |-> 1, packed |-> "none"],
      [ident |-> "Stxd", opcode |-> 115, size |-> 1, packed |-> "none"],
      [ident |-> "Adc", opcode |-> 116, size |-> 1, packed |-> "none"],
      [ident |-> "Sdb", opcode |-> 117, size |-> 1, packed |-> "none"],
      [ident |-> "Shrc", opcode |-> 118, size |-> 1, packed |-> "none"],
      [ident |-> "Smb", opcode |-> 119, size |-> 1, packed |-> "none"],
      [ident |-> "Sav", opcode |-> 120, size |-> 1, packed |-> "none"],
      [ident |-> "Mark", opcode |-> 121, size |-> 1, packed |-> "none"],
      [ident |-> "Req", opcode |-> 122, size |-> 1, packed |-> "none"],
      [ident |-> "Seq", opcode |-> 123, size |-> 1, packed |-> "none"],
      [ident |-> "Adci", opcode |-> 124, size |-> 2, packed |-> "none"],
      [ident |-> "Sdbi", opcode |-> 125, size |-> 2, packed |-> "none"],
      [ident |-> "Shlc", opcode |-> 126, size |-> 1, packed |-> "none"],
      [ident |-> "Smbi", opcode |-> 127, size |-> 2, packed |-> "none"],
      [ident |-> "Glo", opcode |-> 128, size |-> 1, packed |-> "n"],
      [ident |-> "Ghi", opcode |-> 144, size |-> 1, packed |-> "n"],
      [ident |-> "Plo", opcode |-> 160, size |-> 1, packed |-> "n"],
      [ident |-> "Phi", opcode |-> 176, size |-> 1, packed |-> "n"],
      [ident |-> "Lbr", opcode |-> 192, size |-> 3, packed |-> "none"],
      [ident |-> "Lbq", opcode |-> 193, size |-> 3, packed |-> "none"],
      [ident |-> "Lbz", opcode |-> 194, size |-> 3, packed |-> "none"],
      [ident |-> "Lbdf", opcode |-> 195, size |-> 3, packed |-> "none"],
      [ident |-> "Nop", opcode |-> 196, size |-> 1, packed |-> "none"],
      [ident |-> "Lsnq", opcode |-> 197, size |-> 1, packed |-> "none"],
      [ident |-> "Lsnz", opcode |-> 198, size |-> 1, packed |-> "none"],
      [ident |-> "Lsnf", opcode |-> 199, size |-> 1, packed |-> "none"],
      [ident |-> "Lskp", opcode |-> 200, size |-> 1, packed |-> "none"],
      [ident |-> "Lbnq", opcode |-> 201, size |-> 3, packed |-> "none"],
      [ident |-> "Lbnz", opcode |-> 202, size |-> 3, packed |-> "none"],
      [ident |-> "Lbnf", opcode |-> 203, size |-> 3, packed |-> "none"],
      [ident |-> "Lsie", opcode |-> 204, size |-> 1, packed |-> "none"],
      [ident |-> "Lsq", opcode |-> 205, size |-> 1, packed |-> "none"],
      [ident |-> "Lsz", opcode |-> 206, size |-> 1, packed |-> "none"],
      [ident |-> "Lsdf", opcode |-> 207, size |-> 1, packed |-> "none"],
      [ident |-> "Sep", opcode |-> 208, size |-> 1, packed |-> "n"],
      [ident |-> "Sex", opcode |-> 224, size |-> 1, packed |-> "n"],
      [ident |-> "Ldx", opcode |-> 240, size |-> 1, packed |-> "none"],
      [ident |-> "Or", opcode |-> 241, size |-> 1, packed |-> "none"],
      [ident |-> "And", opcode |-> 242, size |-> 1, packed |-> "none"],
      [ident |-> "Xor", opcode |-> 243, size |-> 1, packed |-> "none"],
      [ident |-> "Add", opcode |-> 244, size |-> 1, packed |-> "none"],
      [ident |-> "Sd", opcode |-> 245, size |-> 1, packed |-> "none"],
      [ident |-> "Shr", opcode |-> 246, size |-> 1, packed |-> "none"],
      [ident |-> "Sm", opcode |-> 247, size |-> 1, packed |-> "none"],
      [ident |-> "Ldi", opcode |-> 248, size |-> 2, packed |-> "none"],
      [ident |-> "Ori", opcode |-> 249, size |-> 2, packed |-> "none"],
      [ident |-> "Ani", opcode |-> 250, size |-> 2, packed |-> "none"],
      [ident |-> "Xri", opcode |-> 251, size |-> 2, packed |-> "none"],
      [ident |-> "Adi", opcode |-> 252, size |-> 2, packed |-> "none"],
      [ident |-> "Sdi", opcode |-> 253, size |-> 2, packed |-> "none"],
      [ident |-> "Shl", opcode |-> 254, size |-> 1, packed |-> "none"],
      [ident |-> "Smi", opcode |-> 255, size |-> 2, packed |-> "none"]>>

\* The schema of a variant.
schema_of(ident) ==
    Schemas[CHOOSE k \in 1..Len(Schemas) : Schemas[k].ident = ident]

\* Schema::arity
arity(s) == IF s.packed # "none" THEN 1 ELSE s.size - 1

\* The plain arms of decode: exact opcode, then the operand bytes present.
decode_plain(s, bin) ==
    CASE s.size = 1 -> Instr(s.ident, <<>>)
      [] s.size = 2 -> IF Len(bin) >= 2 THEN Instr(s.ident, <<bin[2]>>) ELSE InstrNone
      [] s.size = 3 -> IF Len(bin) >= 3 THEN Instr(s.ident, <<bin[2], bin[3]>>)
                       ELSE InstrNone

\* The arms of decode for the schemas "6l" and "6h": the low three bits are
\* the operand, bit 3 selects the variant (0x61..0x67 Out, 0x69..0x6f Inp).
decode_half(opcode) ==
    LET want == IF opcode % 16 < 8 THEN "l" ELSE "h"
        hits == {k \in 1..Len(Schemas) :
                    Schemas[k].packed = want /\ Schemas[k].opcode = opcode - (opcode % 16)}
    IN IF hits # {} THEN Instr(Schemas[CHOOSE k \in hits : TRUE].ident, <<opcode % 8>>)
       ELSE InstrNone

\* The packed arms of decode: match opcode & 0xf0, operand opcode & 0x0f.
decode_packed(opcode) ==
    LET hits == {k \in 1..Len(Schemas) :
                    Schemas[k].packed = "n" /\ Schemas[k].opcode = opcode - (opcode % 16)}
    IN IF hits # {} THEN Instr(Schemas[CHOOSE k \in hits : TRUE].ident, <<opcode % 16>>)
       ELSE decode_half(opcode)

\* Mutant of decode: the packed arms are tried before the plain ones.
decode_packed_first(bin) ==
    IF Len(bin) = 0 THEN InstrNone
    ELSE IF decode_packed(bin[1]) # InstrNone THEN decode_packed(bin[1])
    ELSE LET plain == {k \in 1..Len(Schemas) :
                          Schemas[k].packed = "none" /\ Schemas[k].opcode = bin[1]}
         IN IF plain # {} THEN decode_plain(Schemas[CHOOSE k \in plain : TRUE], bin)
            ELSE InstrNone

\* InstrSchema::decode
decode(bin) ==
    IF Len(bin) = 0 THEN InstrNone
    ELSE LET plain == {k \in 1..Len(Schemas) :
                          Schemas[k].packed = "none" /\ Schemas[k].opcode = bin[1]}
         IN IF plain # {} THEN decode_plain(Schemas[CHOOSE k \in plain : TRUE], bin)
            ELSE decode_packed(bin[1])

\* The arms of encode for the schemas "6l" and "6h".
encode_half(s, n) ==
    IF s.packed = "l" THEN <<BitOp("or", s.opcode, n, 8)>>
    ELSE <<BitOp("or", s.opcode + 8, n, 8)>>

\* The arms of encode, by schema.
encode_arm(s, args) ==
    CASE s.packed = "n" -> <<BitOp("or", s.opcode, args[1], 8)>>
      [] s.packed \in {"l", "h"} -> encode_half(s, args[1])
      [] s.size = 1 -> <<s.opcode>>
      [] s.size = 2 -> <<s.opcode, args[1]>>
      [] OTHER -> <<s.opcode, args[1], args[2]>>

\* Mutant of encode: the two operand bytes of a three-byte instruction are
\* written low byte first.
encode_low_first(instr) ==
    IF schema_of(instr.ident).size = 3
    THEN <<schema_of(instr.ident).opcode, instr.args[2], instr.args[1]>>
    ELSE encode_arm(schema_of(instr.ident), instr.args)

\* InstrSchema::encode
encode(instr) == encode_arm(schema_of(instr.ident), instr.args)

\* InstrSchema::size
size(instr) == schema_of(instr.ident).size

(***************************************************************************)
(* SpecInstr: decode and encode as pure functions.  Init draws the input   *)
(* `arg`: an Instr value (any variant, any value of its u8 fields; the     *)
(* operand pair of a three-byte instruction from a sample) or a byte       *)
(* slice; the actions apply the functions and leave the result in `ret`.   *)
(***************************************************************************)
\* The field values of a variant with the given schema.
OperandsOf(s) ==
    CASE arity(s) = 0 -> {<<>>}
      [] arity(s) = 1 -> {<<n>> : n \in 0..255}
      [] OTHER -> {<<hh, ll>> : hh \in ByteSample, ll \in ByteSample}

InstrValues ==
    UNION {{Instr(Schemas[k].ident, a) : a \in OperandsOf(Schemas[k])} :
              k \in 1..Len(Schemas)}

\* The operand bytes that follow the first byte of a slice.
TailBytes == {0, 90}

ByteSlices ==
    {<<>>} \cup {<<b>> : b \in 0..255}
           \cup {<<b, x>> : b \in 0..255, x \in TailBytes}
           \cup {<<b, x, y>> : b \in 0..255, x \in TailBytes, y \in TailBytes}

InitInstr ==
    /\ peer = <<>>
    /\ board = <<>>
    /\ chip = <<>>
    /\ cpu = CpuDefault
    /\ pins = PinsAllHigh
    /\ mem = Memory(<<>>, <<>>)
    /\ clk = 0
    /\ last_mode = "None"
    /\ ret = InstrNone
    /\ \/ pc = "instr" /\ arg \in InstrValues
       \/ pc = "bytes" /\ arg \in ByteSlices

\* Instr::decode(&instr.encode())
EncodeDecode ==
    /\ pc = "instr"
    /\ ret' = decode(encode(arg))
    /\ pc' = "roundtrip"
    /\ UNCHANGED <<board, peer, chip, cpu, pins, mem, clk, last_mode, arg>>

\* Instr::decode(bin)
Decode ==
    /\ pc = "bytes"
    /\ ret' = decode(arg)
    /\ pc' = "decoded"
    /\ UNCHANGED <<board, peer, chip, cpu, pins, mem, clk, last_mode, arg>>

NextInstr == EncodeDecode \/ Decode

SpecInstr == InitInstr /\ [][NextInstr]_vars

(***************************************************************************)
(* SpecAt: the instruction-at-address helper of the memory.  The memory    *)
(* holds three bytes at its first and at its last three addresses; `arg`   *)
(* is the address asked for and `ret` the Option<Instr> returned.          *)
(***************************************************************************)
\* Builder::default: capacity
Capacity == 65536

\* &self.data[start..=end]
data_slice(m, start, end) ==
    [k \in 1..(end - start + 1) |-> mem_read(m.data, start + k - 1)]

\* Memory::get_instr_at
get_instr_at(m, addr) ==
    LET start == addr
        end == IF start + 2 < Capacity - 1 THEN start + 2 ELSE Capacity - 1
    IN IF start >= end THEN InstrNone ELSE decode(data_slice(m, start, end))

\* IDL, LDI, LBR and NOP: opcodes of size 1, 2, 3 and 1.
AtBytes == {0, 248, 192, 196}

\* The addresses asked for: the first and the last three of the memory.
AtAddrs == {0, 1, 2, Capacity - 3, Capacity - 2, Capacity - 1}

InitAt ==
    /\ peer = <<>>
    /\ board = <<>>
    /\ chip = <<>>
    /\ cpu = CpuDefault
    /\ pins = PinsAllHigh
    /\ \E b1, b2, b3 \in AtBytes :
          mem = with_image(with_image(Memory(<<>>, <<>>), 0, <<b1, b2, b3>>),
                           Capacity - 3, <<b1, b2, b3>>)
    /\ pc = "at"
    /\ clk = 0
    /\ last_mode = "None"
    /\ arg \in AtAddrs
    /\ ret = InstrNone

\* self.mem.get_instr_at(addr)
GetInstrAt ==
    /\ pc = "at"
    /\ ret' = get_instr_at(mem, arg)
    /\ pc' = "got"
    /\ UNCHANGED <<board, peer, chip, cpu, pins, mem, clk, last_mode, arg>>

NextAt == GetInstrAt

SpecAt == InitAt /\ [][NextAt]_vars

(***************************************************************************)
(* The AY-5-1013 UART (cosmac_emu/src/chips/ay51013/chip.rs) and its pin   *)
(* bundle (ay51013/pins.rs).  A pin that the data sheet marks negated is   *)
(* kept as the level the bundle stores: the chip reads the raw bit.        *)
(***************************************************************************)
\* Ay51013Pins::default(): every pin high.
Ay51013PinsDefault ==
    [rd |-> 255, dav |-> TRUE, pe |-> TRUE, fe |-> TRUE, or |-> TRUE,
     tbmt |-> TRUE, eoc |-> TRUE, so |-> TRUE, si |-> TRUE, db |-> 255,
     tsb |-> TRUE, eps |-> TRUE, np |-> TRUE, nb |-> 3, cs |-> TRUE,
     ds |-> TRUE, rde |-> TRUE, swe |-> TRUE, rdav |-> TRUE, xr |-> TRUE]

\* Ctrl::default()
CtrlDefault == [char_bits |-> 8, parity |-> "None", stop_bits |-> 1]

\* RxState and TxState: the variant and, for Data, the index of the bit.
UartState(tag, bit) == [tag |-> tag, bit |-> bit]

\* Rx::default() (derived)
RxDefault ==
    [state |-> UartState("Idle", 0), tick |-> 0, shift |-> 0, parity |-> FALSE,
     buffer |-> 0, dav |-> FALSE, pe |-> FALSE, fe |-> FALSE, or |-> FALSE]

\* Tx::default()
TxDefault ==
    [state |-> UartState("Idle", 0), prev_ds |-> TRUE, tick |-> 0, buffer |-> 0,
     shift |-> 0, parity |-> FALSE, tbmt |-> TRUE, eoc |-> TRUE, so |-> TRUE]

\* Ay51013::default() (derived)
Ay51013Default == [ctrl |-> CtrlDefault, tx |-> TxDefault, rx |-> RxDefault, cycle |-> 0]

\* Ctrl::tick
ctrl_tick(ctrl, p) ==
    IF p.cs
    THEN [parity |-> IF p.np THEN "None" ELSE IF p.eps THEN "Even" ELSE "Odd",
          char_bits |-> p.nb + 5,
          stop_bits |-> (IF p.tsb THEN 1 ELSE 0) + 1]
    ELSE ctrl

\* Rx::reset
rx_reset(rx) ==
    [rx EXCEPT !.dav = FALSE, !.pe = FALSE, !.fe = FALSE, !.or = FALSE, !.shift = 0]

\* The state after the last data, parity-less or not (Rx::tick and Tx::tick).
after_bit(ctrl, bit) ==
    IF bit < ctrl.char_bits THEN UartState("Data", bit)
    ELSE IF ctrl.parity # "None" THEN UartState("Parity", 0)
    ELSE UartState("Stop", 0)

\* Rx::tick, the match on (state, SI, tick).
rx_step(rx, ctrl, si) ==
    CASE rx.state.tag = "Idle" /\ si ->
            [rx EXCEPT !.state = UartState("WaitSi", 0), !.tick = 0]
      [] rx.state.tag = "WaitSi" /\ ~si ->
            [rx EXCEPT !.state = UartState("Start", 0), !.tick = 0]
      [] rx.state.tag = "Start" /\ si /\ rx.tick = 7 ->
            [rx EXCEPT !.state = UartState("WaitSi", 0), !.tick = 0]
      [] rx.state.tag = "Start" /\ ~si /\ rx.tick = 7 ->
            [rx EXCEPT !.shift = 0, !.parity = (ctrl.parity = "Even"),
                       !.state = UartState("Data", 0), !.tick = 0]
      [] rx.state.tag = "Data" /\ rx.tick = 15 ->
            [rx EXCEPT !.shift = BitOp("or", rx.shift,
                                       ((IF si THEN 1 ELSE 0) * 2 ^ rx.state.bit) % 256, 8),
                       !.parity = (rx.parity # si),
                       !.state = after_bit(ctrl, rx.state.bit + 1), !.tick = 0]
      [] rx.state.tag = "Parity" /\ rx.tick = 15 ->
            [rx EXCEPT !.pe = (si # rx.parity),
                       !.state = UartState("Stop", 0), !.tick = 0]
      [] rx.state.tag = "Stop" /\ rx.tick = 15 ->
            [rx EXCEPT !.fe = ~si, !.or = rx.dav, !.dav = FALSE,
                       !.state = UartState("Dav", 0), !.tick = 0]
      [] rx.state.tag = "Dav" /\ rx.tick = 0 ->
            [rx EXCEPT !.buffer = rx.shift, !.dav = TRUE,
                       !.state = IF si THEN UartState("WaitSi", 0) ELSE UartState("Idle", 0),
                       !.tick = 0]
      [] OTHER -> [rx EXCEPT !.tick = rx.tick + 1]

\* Rx::tick clearing DAV while RDAV is high.
rx_rdav_inverted(rx, p) == IF p.rdav THEN [rx EXCEPT !.dav = FALSE] ELSE rx

\* Rx::tick, "Reset DAV".
rx_rdav(rx, p) == IF ~p.rdav THEN [rx EXCEPT !.dav = FALSE] ELSE rx

\* Rx::tick gating the holding byte onto RD while RDE is high.
rx_pins_rde_inverted(rx, p) ==
    [p EXCEPT !.dav = IF p.swe THEN FALSE ELSE rx.dav,
              !.pe = IF p.swe THEN FALSE ELSE rx.pe,
              !.fe = IF p.swe THEN FALSE ELSE rx.fe,
              !.or = IF p.swe THEN FALSE ELSE rx.or,
              !.rd = IF p.rde THEN rx.buffer ELSE 0]

\* Rx::tick, "Read status" and "Read data".
rx_pins(rx, p) ==
    [p EXCEPT !.dav = IF p.swe THEN FALSE ELSE rx.dav,
              !.pe = IF p.swe THEN FALSE ELSE rx.pe,
              !.fe = IF p.swe THEN FALSE ELSE rx.fe,
              !.or = IF p.swe THEN FALSE ELSE rx.or,
              !.rd = IF p.rde THEN 0 ELSE rx.buffer]

\* Rx::tick
rx_tick(rx, ctrl, p) == rx_rdav(rx_step(rx, ctrl, p.si), p)

\* Tx::reset
tx_reset(tx) == TxDefault

\* Tx::start with the parity accumulator always starting from 1.
tx_start_parity_set(tx, ctrl) ==
    [tx EXCEPT !.parity = TRUE, !.shift = tx.buffer, !.so = FALSE]

\* Tx::start
tx_start(tx, ctrl) ==
    [tx EXCEPT !.parity = (ctrl.parity = "Even"), !.shift = tx.buffer, !.so = FALSE]

\* Mutant of tx_latch: a byte strobed while a frame is shifted out is dropped.
tx_latch_idle_only(tx, p) ==
    IF ~tx.prev_ds /\ p.ds /\ tx.state.tag = "Idle"
    THEN [tx EXCEPT !.buffer = p.db, !.tbmt = FALSE, !.prev_ds = p.ds]
    ELSE [tx EXCEPT !.prev_ds = p.ds]

\* Tx::tick, the DS rising edge.
tx_latch(tx, p) ==
    IF ~tx.prev_ds /\ p.ds
    THEN [tx EXCEPT !.buffer = p.db, !.tbmt = FALSE, !.prev_ds = p.ds]
    ELSE [tx EXCEPT !.prev_ds = p.ds]

\* Tx::tick, the match on (state, tick).
tx_step(tx, ctrl) ==
    CASE tx.state.tag = "Idle" /\ ~tx.tbmt ->
            [tx_start(tx, ctrl) EXCEPT !.state = UartState("Start", 0), !.tick = 1]
      [] tx.state.tag = "Start" /\ tx.tick = 1 ->
            [tx EXCEPT !.eoc = FALSE, !.tick = 2]
      [] tx.state.tag = "Start" /\ tx.tick = 5 ->
            [tx EXCEPT !.tbmt = TRUE, !.tick = 6]
      [] tx.state.tag = "Start" /\ tx.tick = 15 ->
            [tx EXCEPT !.state = UartState("Data", 0), !.tick = 0]
      [] tx.state.tag = "Data" /\ tx.tick = 0 ->
            [tx EXCEPT !.so = (tx.shift % 2 = 1),
                       !.parity = (tx.parity # (tx.shift % 2 = 1)),
                       !.shift = tx.shift \div 2, !.tick = 1]
      [] tx.state.tag = "Data" /\ tx.tick = 15 ->
            [tx EXCEPT !.state = after_bit(ctrl, tx.state.bit + 1), !.tick = 0]
      [] tx.state.tag = "Parity" /\ tx.tick = 0 ->
            [tx EXCEPT !.so = tx.parity, !.tick = 1]
      [] tx.state.tag = "Parity" /\ tx.tick = 15 ->
            [tx EXCEPT !.state = UartState("Stop", 0), !.tick = 0]
      [] tx.state.tag = "Stop" /\ tx.tick = 0 ->
            [tx EXCEPT !.so = TRUE, !.tick = 1]
      [] tx.state.tag = "Stop" /\ tx.tick # 0 /\ tx.tick = ctrl.stop_bits * 16 - 1 ->
            [tx EXCEPT !.state = UartState("Eoc", 0), !.tick = 0]
      [] tx.state.tag = "Eoc" /\ tx.tick = 0 ->
            IF ~tx.tbmt
            THEN [tx_start([tx EXCEPT !.eoc = TRUE], ctrl)
                     EXCEPT !.state = UartState("Start", 0), !.tick = 1]
            ELSE [tx EXCEPT !.eoc = TRUE, !.state = UartState("Idle", 0), !.tick = 0]
      [] OTHER -> [tx EXCEPT !.tick = (tx.tick + 1) % 256]

\* Tx::tick, the output pins.
tx_pins(tx, p) ==
    [p EXCEPT !.tbmt = IF p.swe THEN FALSE ELSE tx.tbmt, !.eoc = tx.eoc, !.so = tx.so]

\* Tx::tick
tx_tick(tx, ctrl, p) == tx_step(tx_latch(tx, p), ctrl)

\* Ay51013::tick, "if pins.get_xr()".
xr_reset(c, p) ==
    IF p.xr THEN [c EXCEPT !.rx = rx_reset(c.rx), !.tx = tx_reset(c.tx)] ELSE c

\* Ay51013::tick, the end: the receiver drives its pins, then the transmitter.
ay_tick_pins(ctrl, rx, tx, cycle, p) ==
    [chip |-> [ctrl |-> ctrl, tx |-> tx, rx |-> rx, cycle |-> cycle + 1],
     pins |-> tx_pins(tx, rx_pins(rx, p))]

\* Ay51013::tick after the reset: rx, then tx.  The receiver writes output
\* pins only and the transmitter reads DS and DB, so both step on p.
ay_tick_units(c, ctrl, p) ==
    ay_tick_pins(ctrl, rx_tick(c.rx, ctrl, p), tx_tick(c.tx, ctrl, p), c.cycle, p)

\* Ay51013::tick
ay_tick(c, p) == ay_tick_units(xr_reset(c, p), ctrl_tick(c.ctrl, p), p)

\* The pins after Ay51013::reset.
lower_xr(s) == [chip |-> s.chip, pins |-> [s.pins EXCEPT !.xr = FALSE]]

\* Ay51013::reset
ay_reset(c, p) ==
    lower_xr(ay_tick(c, [p EXCEPT !.ds = TRUE, !.rde = FALSE, !.swe = FALSE,
                                  !.rdav = TRUE, !.xr = TRUE]))

\* The pins after Ay51013::configure.
lower_cs(s) == [chip |-> s.chip, pins |-> [s.pins EXCEPT !.cs = FALSE]]

\* Ay51013::configure
configure(c, p, char_bits, parity, stop_bits) ==
    lower_cs(ay_reset(c, [p EXCEPT !.nb = char_bits - 5, !.eps = (parity = "Even"),
                                   !.np = (parity = "None"), !.tsb = (stop_bits = 2),
                                   !.cs = TRUE]))

(***************************************************************************)
(* The AY-5-1013 driven the way ay51013/tests.rs drives it: a fresh chip   *)
(* and pin bundle, configure, then either a DS strobe followed by ticks    *)
(* (kind "tx": SI left alone; kind "loop": SO copied to SI before every    *)
(* tick, as roundtrip does) or ticks with SI held low (kind "low").  clk   *)
(* counts the ticks after the one with DS low.                             *)
(***************************************************************************)
MaxAyClk == 200

\* UartMode::new: every mode the chip accepts.
AyModes == [char_bits : 5..8, parity : {"None", "Even", "Odd"}, stop_bits : 1..2]

\* The bytes test_tx_8n1, test_tx_5o2 and test_tx_5e1_with_buffering send.
TxBytes == {83, 108, 8}

AyScenario(kind, m, byte) ==
    [kind |-> kind, char_bits |-> m.char_bits, parity |-> m.parity,
     stop_bits |-> m.stop_bits, byte |-> byte]

InitAy ==
    /\ peer = <<>>
    /\ board = <<>>
    /\ chip = Ay51013Default
    /\ pins = Ay51013PinsDefault
    /\ arg \in {AyScenario("tx", m, b) : m \in AyModes, b \in TxBytes}
                  \cup {AyScenario("low", m, 0) : m \in AyModes}
    /\ cpu = CpuDefault
    /\ mem = Memory(<<>>, <<>>)
    /\ pc = "new"
    /\ clk = 0
    /\ last_mode = "None"
    /\ ret = 0

\* roundtrip for every mode and every byte the mode can carry.
InitLoop ==
    /\ peer = <<>>
    /\ board = <<>>
    /\ chip = Ay51013Default
    /\ pins = Ay51013PinsDefault
    /\ arg \in {AyScenario("loop", m, b) : m \in AyModes, b \in 0..255}
    /\ arg.byte < 2 ^ arg.char_bits
    /\ cpu = CpuDefault
    /\ mem = Memory(<<>>, <<>>)
    /\ pc = "new"
    /\ clk = 0
    /\ last_mode = "None"
    /\ ret = 0

\* chip.configure(&mut pins, UartMode::new(char_bits, parity, stop_bits))
AyConfigure ==
    /\ pc = "new"
    /\ \E s \in {configure(chip, pins, arg.char_bits, arg.parity, arg.stop_bits)} :
          /\ chip' = s.chip
          /\ pins' = s.pins
    /\ pc' = "configured"
    /\ UNCHANGED <<board, peer, cpu, mem, clk, last_mode, arg, ret>>

\* pins.set_db(value); pins.set_ds(false); chip.tick(pins)
AyStrobe ==
    /\ pc = "configured"
    /\ arg.kind \in {"tx", "loop"}
    /\ \E s \in {ay_tick(chip, [pins EXCEPT !.db = arg.byte, !.ds = FALSE])} :
          /\ chip' = s.chip
          /\ pins' = s.pins
    /\ pc' = "running"
    /\ UNCHANGED <<board, peer, cpu, mem, clk, last_mode, arg, ret>>

\* The pins the test sets before a tick with DS released.
AyInputs(p) ==
    [p EXCEPT !.ds = TRUE,
              !.db = IF arg.kind = "tx" /\ clk >= 1 THEN 255 ELSE @,
              !.si = CASE arg.kind = "loop" -> p.so
                       [] arg.kind = "low" -> FALSE
                       [] OTHER -> @]

\* chip.tick(pins) with DS released.
AyTick ==
    /\ pc = "running" \/ (pc = "configured" /\ arg.kind = "low")
    /\ clk < MaxAyClk
    /\ \E s \in {ay_tick(chip, AyInputs(pins))} :
          /\ chip' = s.chip
          /\ pins' = s.pins
    /\ pc' = "running"
    /\ clk' = clk + 1
    /\ UNCHANGED <<board, peer, cpu, mem, last_mode, arg, ret>>

NextAy == AyConfigure \/ AyStrobe \/ AyTick

SpecAy == InitAy /\ [][NextAy]_vars

SpecLoop == InitLoop /\ [][NextAy]_vars

(***************************************************************************)
(* External reset in mid-operation: the scenarios above with, at any tick  *)
(* after configure, one tick with XR high.                                 *)
(***************************************************************************)
InitXr ==
    /\ peer = <<>>
    /\ board = <<>>
    /\ chip = Ay51013Default
    /\ pins = Ay51013PinsDefault
    /\ arg \in {AyScenario("loop", m, b) : m \in AyModes, b \in TxBytes}
                  \cup {AyScenario("low", m, 0) : m \in AyModes}
    /\ cpu = CpuDefault
    /\ mem = Memory(<<>>, <<>>)
    /\ pc = "new"
    /\ clk = 0
    /\ last_mode = "None"
    /\ ret = 0

\* pins.set_xr(true); chip.tick(pins)
AyXrTick ==
    /\ pc = "running"
    /\ \E s \in {ay_tick(chip, [AyInputs(pins) EXCEPT !.xr = TRUE])} :
          /\ chip' = s.chip
          /\ pins' = s.pins
    /\ pc' = "xr"
    /\ UNCHANGED <<board, peer, cpu, mem, clk, last_mode, arg, ret>>

NextXr == AyConfigure \/ AyStrobe \/ AyTick \/ AyXrTick

SpecXr == InitXr /\ [][NextXr]_vars

(***************************************************************************)
(* The CDP1854 UART (cosmac_emu/src/chips/cdp1854.rs).  Pins are kept at   *)
(* the level the u64 bundle stores; CS1..CS3 are one three-bit field.  A   *)
(* paravirt channel is the queue, its capacity and whether the other end   *)
(* is still connected; `some` is FALSE for Option::None.                   *)
(***************************************************************************)
\* Pins::mask_all(): every pin high.
Cdp1854PinsAll ==
    [tbus |-> 255, rbus |-> 255, cs |-> 7, clear |-> TRUE, rd_wr |-> TRUE,
     rsel |-> TRUE, tpb |-> TRUE, sdi |-> TRUE, sdo |-> TRUE, thre |-> TRUE,
     da |-> TRUE, fe |-> TRUE, pe_oe |-> TRUE, int |-> TRUE, rts |-> TRUE,
     cts |-> TRUE, psi |-> TRUE, es |-> TRUE, mode |-> TRUE]

\* Control::default()
ControlDefault ==
    [word_length |-> 8, parity |-> "None", stop_bits |-> 1,
     ie |-> FALSE, tx_break |-> FALSE, tr |-> FALSE]

\* Control::new(word_length, parity, stop_bits)
control_new(word_length, parity, stop_bits) ==
    [ControlDefault EXCEPT !.word_length = word_length, !.parity = parity,
                           !.stop_bits = stop_bits]

\* Control::word_mask; -1 stands for unreachable!().
word_mask(c) ==
    CASE c.word_length = 5 -> 31
      [] c.word_length = 6 -> 63
      [] c.word_length = 7 -> 127
      [] c.word_length = 8 -> 255
      [] OTHER -> -1

\* Control::rx_ticks
rx_ticks(c) ==
    8 + 16 + c.word_length + 16 * (IF c.parity # "None" THEN 1 ELSE 0) + 16

\* Control::stop_ticks; -1 stands for unreachable!().
stop_ticks(c) ==
    CASE c.stop_bits = 1 -> 16
      [] c.word_length = 5 /\ c.stop_bits = 2 -> 24
      [] c.stop_bits = 2 -> 32
      [] OTHER -> -1

\* Control::tx_ticks
tx_ticks(c) ==
    16 + 16 * c.word_length + 16 * (IF c.parity # "None" THEN 1 ELSE 0) + stop_ticks(c)

\* bool as u8
as_u8(b) == IF b THEN 1 ELSE 0

\* impl From<Control> for u8 with WLS1 and WLS2 exchanged.
control_to_u8_wls_swapped(c) ==
    (IF c.parity = "None" THEN 1 ELSE 0)
        + 2 * (IF c.parity = "Even" THEN 1 ELSE 0)
        + 4 * as_u8(c.stop_bits > 1)
        + 16 * as_u8(c.word_length = 6 \/ c.word_length >= 8)
        + 8 * as_u8(c.word_length >= 7)
        + 32 * as_u8(c.ie)
        + 64 * as_u8(c.tx_break)
        + 128 * as_u8(c.tr)

\* impl From<Control> for u8
control_to_u8(c) ==
    (IF c.parity = "None" THEN 1 ELSE 0)
        + 2 * (IF c.parity = "Even" THEN 1 ELSE 0)
        + 4 * as_u8(c.stop_bits > 1)
        + 8 * as_u8(c.word_length = 6 \/ c.word_length >= 8)
        + 16 * as_u8(c.word_length >= 7)
        + 32 * as_u8(c.ie)
        + 64 * as_u8(c.tx_break)
        + 128 * as_u8(c.tr)

\* impl From<u8> for Control
control_from_u8(v) ==
    [word_length |-> 5 + ((v \div 8) % 4),
     parity |-> CASE v % 4 \in {1, 3} -> "None"
                  [] v % 4 = 0 -> "Odd"
                  [] OTHER -> "Even",
     stop_bits |-> 1 + ((v \div 4) % 2),
     ie |-> (v \div 32) % 2 # 0,
     tx_break |-> (v \div 64) % 2 # 0,
     tr |-> (v \div 128) # 0]

\* impl From<Status> for u8
status_to_u8(s) ==
    as_u8(s.da) + 2 * as_u8(s.oe) + 4 * as_u8(s.pe) + 8 * as_u8(s.fe)
        + 16 * as_u8(s.es) + 32 * as_u8(s.psi) + 64 * as_u8(s.tsre) + 128 * as_u8(s.thre)

\* impl From<u8> for Status
status_from_u8(v) ==
    [da |-> v % 2 # 0, oe |-> (v \div 2) % 2 # 0, pe |-> (v \div 4) % 2 # 0,
     fe |-> (v \div 8) % 2 # 0, es |-> (v \div 16) % 2 # 0, psi |-> (v \div 32) % 2 # 0,
     tsre |-> (v \div 64) % 2 # 0, thre |-> (v \div 128) % 2 # 0]

\* Interrupts::default() (derived)
InterruptsDefault ==
    [da |-> FALSE, tx_ready |-> FALSE, tx_done |-> FALSE, psi |-> FALSE, cts |-> FALSE]

\* Interrupts::any
interrupts_any(i) == i.da \/ i.tx_ready \/ i.tx_done \/ i.psi \/ i.cts

\* Option::None for a paravirt channel end.
NoChannel == [some |-> FALSE, q |-> <<>>, cap |-> 0, connected |-> FALSE]

\* flume::bounded(cap): one end of a connected, empty channel.
Channel(cap) == [some |-> TRUE, q |-> <<>>, cap |-> cap, connected |-> TRUE]

\* Sender::try_send from the other end of the rx channel.
try_send(ch, byte) == IF Len(ch.q) < ch.cap THEN [ch EXCEPT !.q = Append(@, byte)] ELSE ch

\* Rx::default() (derived): RxState::WaitSdiHigh, no paravirt receiver.
Cdp1854RxDefault ==
    [state |-> UartState("WaitSdiHigh", 0), tick |-> 0, shift |-> 0, holding |-> 0,
     parity |-> FALSE, da |-> FALSE, oe |-> FALSE, pe |-> FALSE, fe |-> FALSE,
     pv_rx |-> NoChannel]

\* Tx::default()
Cdp1854TxDefault ==
    [state |-> UartState("Idle", 0), tick |-> 0, holding |-> 0, shift |-> 0,
     parity |-> FALSE, break_latch |-> FALSE, tsre |-> TRUE, thre |-> TRUE,
     sdo |-> TRUE, pv_tx |-> NoChannel, fault |-> FALSE]

\* Cdp1854::default() (derived)
Cdp1854Default ==
    [control |-> ControlDefault, rx |-> Cdp1854RxDefault, tx |-> Cdp1854TxDefault,
     interrupts |-> InterruptsDefault, prev_psi |-> FALSE, prev_cts |-> FALSE]

\* Cdp1854::with_pv_rx
with_pv_rx(c, rx) == [c EXCEPT !.rx.pv_rx = rx]

\* Cdp1854::with_pv_tx
with_pv_tx(c, tx) == [c EXCEPT !.tx.pv_tx = tx]

\* Rx::clear
cdp1854_rx_clear(rx) == [Cdp1854RxDefault EXCEPT !.pv_rx = rx.pv_rx]

\* Tx::clear
cdp1854_tx_clear(tx) == [Cdp1854TxDefault EXCEPT !.pv_tx = tx.pv_tx]

\* Rx::tick and Tx::tick: the state after data bit `bit - 1`.
after_word_bit(ctrl, bit) ==
    IF bit < ctrl.word_length THEN UartState("Data", bit)
    ELSE IF ctrl.parity # "None" THEN UartState("Parity", 0)
    ELSE UartState("Stop", 0)

\* The dequeue without the word-length mask.
rx_pv_recv_unmasked(rx, ctrl) ==
    IF rx.pv_rx.some /\ rx.pv_rx.q # <<>>
    THEN [rx EXCEPT !.pv_rx.q = Tail(@),
                    !.shift = Head(rx.pv_rx.q),
                    !.state = UartState("ParavirtData", rx_ticks(ctrl)), !.tick = 0]
    ELSE [rx EXCEPT !.tick = rx.tick + 1]

\* Rx::tick, the arm (WaitSdiLow, true, t): the paravirt receive.
rx_pv_recv(rx, ctrl) ==
    IF rx.pv_rx.some /\ rx.pv_rx.q # <<>>
    THEN [rx EXCEPT !.pv_rx.q = Tail(@),
                    !.shift = BitOp("and", Head(rx.pv_rx.q), word_mask(ctrl), 8),
                    !.state = UartState("ParavirtData", rx_ticks(ctrl)), !.tick = 0]
    ELSE IF rx.pv_rx.some /\ ~rx.pv_rx.connected
    THEN [rx EXCEPT !.pv_rx = NoChannel, !.tick = rx.tick + 1]
    ELSE [rx EXCEPT !.tick = rx.tick + 1]

\* Rx::tick, the arms that complete a word.
rx_complete(rx, sdi, fe) ==
    [rx EXCEPT !.holding = rx.shift, !.fe = fe, !.oe = rx.da, !.da = TRUE,
               !.state = IF sdi THEN UartState("WaitSdiLow", 0)
                         ELSE UartState("WaitSdiHigh", 0),
               !.tick = 0]

\* Rx::tick
cdp1854_rx_tick(rx, ctrl, sdi) ==
    CASE rx.state.tag = "WaitSdiHigh" /\ sdi ->
            [rx EXCEPT !.state = UartState("WaitSdiLow", 0), !.tick = 0]
      [] rx.state.tag = "WaitSdiLow" /\ sdi -> rx_pv_recv(rx, ctrl)
      [] rx.state.tag = "WaitSdiLow" /\ ~sdi ->
            [rx EXCEPT !.state = UartState("Start", 0), !.tick = 0]
      [] rx.state.tag = "Start" /\ sdi /\ rx.tick = 7 ->
            [rx EXCEPT !.state = UartState("WaitSdiLow", 0), !.tick = 0]
      [] rx.state.tag = "Start" /\ ~sdi /\ rx.tick = 7 ->
            [rx EXCEPT !.shift = 0, !.parity = (ctrl.parity = "Even"),
                       !.state = UartState("Data", 0), !.tick = 0]
      [] rx.state.tag = "Data" /\ rx.tick = 15 ->
            [rx EXCEPT !.shift = BitOp("or", rx.shift,
                                       (as_u8(sdi) * 2 ^ rx.state.bit) % 256, 8),
                       !.parity = (rx.parity # sdi),
                       !.state = after_word_bit(ctrl, rx.state.bit + 1), !.tick = 0]
      [] rx.state.tag = "Parity" /\ rx.tick = 15 ->
            [rx EXCEPT !.pe = (sdi # rx.parity),
                       !.state = UartState("Stop", 0), !.tick = 0]
      [] rx.state.tag = "Stop" /\ rx.tick = 15 -> rx_complete(rx, sdi, ~sdi)
      [] rx.state.tag = "ParavirtData" /\ rx.tick = rx.state.bit - 1 ->
            rx_complete(rx, sdi, FALSE)
      [] OTHER -> [rx EXCEPT !.tick = rx.tick + 1]

\* Tx::tick, the paravirt send in the arm (Start, 0); a full queue is
\* unreachable!("cts invalid").
tx_pv_send(tx, ctrl) ==
    IF ~tx.pv_tx.some THEN tx
    ELSE IF ~tx.pv_tx.connected THEN [tx EXCEPT !.pv_tx = NoChannel]
    ELSE IF Len(tx.pv_tx.q) >= tx.pv_tx.cap THEN [tx EXCEPT !.fault = TRUE]
    ELSE [tx EXCEPT !.pv_tx.q = Append(@, BitOp("and", tx.shift, word_mask(ctrl), 8))]

\* Tx::tick
cdp1854_tx_tick(tx, ctrl, cts) ==
    CASE tx.state.tag = "Idle" /\ cts /\ ~tx.thre ->
            [tx EXCEPT !.shift = tx.holding, !.tsre = FALSE,
                       !.state = UartState("Start", 0), !.tick = 0]
      [] tx.state.tag = "Start" /\ tx.tick = 0 ->
            tx_pv_send([tx EXCEPT !.sdo = FALSE, !.break_latch = FALSE, !.thre = TRUE,
                                  !.parity = (ctrl.parity = "Even"), !.tick = 1], ctrl)
      [] tx.state.tag = "Start" /\ tx.tick = 15 ->
            [tx EXCEPT !.state = UartState("Data", 0), !.tick = 0]
      [] tx.state.tag = "Data" /\ tx.tick = 0 ->
            [tx EXCEPT !.sdo = (tx.shift % 2 = 1),
                       !.parity = (tx.parity # (tx.shift % 2 = 1)),
                       !.shift = tx.shift \div 2, !.tick = 1]
      [] tx.state.tag = "Data" /\ tx.tick = 15 ->
            [tx EXCEPT !.state = after_word_bit(ctrl, tx.state.bit + 1), !.tick = 0]
      [] tx.state.tag = "Parity" /\ tx.tick = 0 ->
            [tx EXCEPT !.sdo = tx.parity, !.tick = 1]
      [] tx.state.tag = "Parity" /\ tx.tick = 15 ->
            [tx EXCEPT !.state = UartState("Stop", 0), !.tick = 0]
      [] tx.state.tag = "Stop" /\ tx.tick = 0 ->
            [tx EXCEPT !.sdo = TRUE, !.tick = 1]
      [] tx.state.tag = "Stop" /\ tx.tick # 0 /\ tx.tick = stop_ticks(ctrl) - 1 ->
            IF tx.thre \/ ~cts
            THEN [tx EXCEPT !.tsre = TRUE, !.state = UartState("Idle", 0), !.tick = 0]
            ELSE [tx EXCEPT !.shift = tx.holding,
                            !.state = UartState("Start", 0), !.tick = 0]
      [] OTHER -> [tx EXCEPT !.tick = tx.tick + 1]

\* Cdp1854::update_pv_cts leaving CTS as it is.
update_pv_cts_unchanged(c, p) == p

\* Cdp1854::update_pv_cts
update_pv_cts(c, p) ==
    IF c.tx.pv_tx.some
    THEN [p EXCEPT !.cts = (Len(c.tx.pv_tx.q) >= c.tx.pv_tx.cap)]
    ELSE p

\* Cdp1854::update_pins with INT high whenever IE is set.
update_pins_int_follows_ie(c, p) ==
    [update_pv_cts(c, p) EXCEPT
        !.rts = ~c.control.tr, !.da = ~c.rx.da, !.fe = c.rx.fe,
        !.pe_oe = (c.rx.pe \/ c.rx.oe), !.sdo = (~c.tx.break_latch /\ c.tx.sdo),
        !.thre = ~c.tx.thre, !.int = ~c.control.ie]

\* Cdp1854::update_pins
cdp1854_update_pins(c, p) ==
    [update_pv_cts(c, p) EXCEPT
        !.rts = ~c.control.tr, !.da = ~c.rx.da, !.fe = c.rx.fe,
        !.pe_oe = (c.rx.pe \/ c.rx.oe), !.sdo = (~c.tx.break_latch /\ c.tx.sdo),
        !.thre = ~c.tx.thre, !.int = ~(c.control.ie /\ interrupts_any(c.interrupts))]

\* The end of every entry point: the chip and the pins it drives.
done_1854(c, p) == [chip |-> c, pins |-> cdp1854_update_pins(c, p)]

\* Cdp1854::clear; `assert!(Pins::Mode.get(*pins))` holds in every caller here.
clear(c, p) ==
    [c EXCEPT !.control = ControlDefault, !.interrupts = InterruptsDefault,
              !.rx = cdp1854_rx_clear(c.rx), !.tx = cdp1854_tx_clear(c.tx),
              !.prev_psi = p.psi, !.prev_cts = p.cts]

\* Cdp1854::bus_get_data
bus_get_data(c, p) ==
    [c EXCEPT !.tx.holding = p.tbus, !.tx.thre = FALSE,
              !.interrupts.tx_ready = FALSE, !.interrupts.tx_done = FALSE]

\* Cdp1854::bus_get_control loading the whole word whatever TR is.
bus_get_control_no_inhibit(c, p) ==
    [c EXCEPT !.tx.break_latch = (@ \/ control_from_u8(p.tbus).tx_break),
              !.control = control_from_u8(p.tbus)]

\* Cdp1854::bus_get_control
bus_get_control(c, p) ==
    IF control_from_u8(p.tbus).tr
    THEN [c EXCEPT !.control.tr = TRUE]
    ELSE [c EXCEPT !.tx.break_latch = (@ \/ control_from_u8(p.tbus).tx_break),
                   !.control = control_from_u8(p.tbus)]

\* Cdp1854::bus_put_data, the chip.
bus_put_data(c) == [c EXCEPT !.rx.da = FALSE, !.interrupts.da = FALSE]

\* Cdp1854::bus_put_status, the status word put on RBus.
bus_status(c, p) ==
    [da |-> c.rx.da, oe |-> c.rx.oe, pe |-> c.rx.pe, fe |-> c.rx.fe, es |-> ~p.es,
     psi |-> c.interrupts.psi, tsre |-> c.tx.tsre, thre |-> c.tx.thre]

\* Cdp1854::bus_put_status, the chip.
bus_put_status(c) ==
    [c EXCEPT !.interrupts.tx_ready = FALSE, !.interrupts.tx_done = FALSE,
              !.interrupts.psi = FALSE, !.interrupts.cts = FALSE]

\* Cdp1854::tick_tpb, "Bus I/O".
tpb_bus(c, p) ==
    IF p.cs = 5 /\ p.tpb
    THEN CASE ~p.rsel /\ ~p.rd_wr -> done_1854(bus_get_data(c, p), p)
           [] ~p.rsel /\ p.rd_wr ->
                 done_1854(bus_put_data(c), [p EXCEPT !.rbus = c.rx.holding])
           [] p.rsel /\ ~p.rd_wr -> done_1854(bus_get_control(c, p), p)
           [] OTHER ->
                 done_1854(bus_put_status(c),
                           [p EXCEPT !.rbus = status_to_u8(bus_status(c, p))])
    ELSE done_1854(c, p)

\* Cdp1854::tick_tpb, "Detect /CTS rising edge", on the pins update_pv_cts left.
tpb_cts(c, p) ==
    [c EXCEPT !.prev_cts = p.cts,
              !.tx.break_latch = IF ~c.prev_cts /\ p.cts THEN FALSE ELSE @,
              !.interrupts.cts =
                  IF ~c.prev_cts /\ p.cts /\ (~c.tx.thre \/ ~c.tx.tsre)
                  THEN TRUE ELSE @]

\* Cdp1854::tick_tpb, "Detect /PSI falling edge".
tpb_psi(c, p) ==
    [c EXCEPT !.prev_psi = p.psi,
              !.interrupts.psi = IF c.prev_psi /\ ~p.psi THEN TRUE ELSE @]

\* Cdp1854::tick_tpb
tick_tpb(c, p) ==
    IF ~p.clear THEN done_1854(clear(c, p), p)
    ELSE tpb_bus(tpb_cts(tpb_psi(c, p), update_pv_cts(c, p)), update_pv_cts(c, p))

\* Cdp1854::tick_rclock after self.rx.tick.
rclock_done(c, rx, p) ==
    done_1854([c EXCEPT !.rx = rx, !.interrupts.da = IF rx.da THEN TRUE ELSE @], p)

\* Cdp1854::tick_rclock
tick_rclock(c, p) == rclock_done(c, cdp1854_rx_tick(c.rx, c.control, p.sdi), p)

\* Cdp1854::tick_tclock after self.tx.tick.
tclock_done(c, tx, p) ==
    done_1854([c EXCEPT !.tx = tx,
                        !.interrupts.tx_ready =
                            IF c.control.tr /\ ~c.tx.thre /\ tx.thre THEN TRUE ELSE @,
                        !.interrupts.tx_done =
                            IF tx.thre /\ ~c.tx.tsre /\ tx.tsre THEN TRUE ELSE @],
              p)

\* Cdp1854::tick_tclock
tick_tclock(c, p) == tclock_done(c, cdp1854_tx_tick(c.tx, c.control, ~p.cts), p)

(***************************************************************************)
(* The control-register conversions as pure functions: a Control built by  *)
(* Control::new and the with_* setters, converted to u8 and back.          *)
(***************************************************************************)
\* u8 values for word_length and stop_bits: the documented ones, their
\* neighbours and the ends of the type.
WordLengths == {0, 4, 5, 6, 7, 8, 9, 255}

StopBits == {0, 1, 2, 3, 255}

Controls ==
    {[control_new(wl, par, sb) EXCEPT !.ie = ie, !.tx_break = brk, !.tr = tr] :
        wl \in WordLengths, par \in {"None", "Even", "Odd"}, sb \in StopBits,
        ie \in BOOLEAN, brk \in BOOLEAN, tr \in BOOLEAN}

InitControl ==
    /\ peer = <<>>
    /\ board = <<>>
    /\ chip = <<>>
    /\ pins = PinsAllHigh
    /\ cpu = CpuDefault
    /\ mem = Memory(<<>>, <<>>)
    /\ pc = "control"
    /\ clk = 0
    /\ last_mode = "None"
    /\ arg \in Controls
    /\ ret = ControlDefault

\* Control::from(u8::from(ctrl))
ControlRoundtrip ==
    /\ pc = "control"
    /\ ret' = control_from_u8(control_to_u8(arg))
    /\ pc' = "converted"
    /\ UNCHANGED <<board, peer, chip, cpu, pins, mem, clk, last_mode, arg>>

NextControl == ControlRoundtrip

SpecControl == InitControl /\ [][NextControl]_vars

(***************************************************************************)
(* The CDP1854 driven as cdp1854/tests.rs drives it (reset, write_control, *)
(* write_data, then the loop of roundtrip: tick_tclock, SDO copied to SDI, *)
(* tick_rclock), with, from any state of such a run, a call of tick_tpb on *)
(* arbitrary input pins followed by one more call of any entry point.  clk *)
(* counts the transmitter ticks of the loop.                               *)
(***************************************************************************)
Max1854Clk == 144

\* The pins after a bus helper of the tests: chip deselected.
deselect(s) == [chip |-> s.chip, pins |-> [s.pins EXCEPT !.cs = 7]]

\* write_control
write_control(c, p, word) ==
    deselect(tick_tpb(c, [p EXCEPT !.tbus = word, !.cs = 5, !.rsel = TRUE,
                                   !.rd_wr = FALSE]))

\* write_data
write_data(c, p, data) ==
    deselect(tick_tpb(c, [p EXCEPT !.tbus = data, !.cs = 5, !.rsel = FALSE,
                                   !.rd_wr = FALSE]))

\* The control words reset is given: five-bit words without TR, one format
\* without and one with TBRK.
ResetControls ==
    {[control_new(5, m[1], m[2]) EXCEPT !.ie = ie, !.tx_break = m[3]] :
        m \in {<<"None", 1, FALSE>>, <<"Even", 2, TRUE>>}, ie \in BOOLEAN}

\* The bytes put on the bus by a free control write: a plain word, one with
\* PI, IE and TBRK, one with TR and IE, all ones.
FreeWords == {0, 97, 160, 255}

\* What the free tick_tpb finds on the select and bus pins: the chip not
\* selected, selected with TPB low, and each of the four bus operations.
BusOps ==
    {[cs |-> 7, tpb |-> TRUE, rsel |-> TRUE, rd_wr |-> TRUE, tbus |-> 255],
     [cs |-> 5, tpb |-> FALSE, rsel |-> TRUE, rd_wr |-> FALSE, tbus |-> 160],
     [cs |-> 5, tpb |-> TRUE, rsel |-> FALSE, rd_wr |-> TRUE, tbus |-> 255],
     [cs |-> 5, tpb |-> TRUE, rsel |-> TRUE, rd_wr |-> TRUE, tbus |-> 255]}
        \cup {[cs |-> 5, tpb |-> TRUE, rsel |-> FALSE, rd_wr |-> FALSE, tbus |-> w] :
                 w \in {0, 255}}
        \cup {[cs |-> 5, tpb |-> TRUE, rsel |-> TRUE, rd_wr |-> FALSE, tbus |-> w] :
                 w \in FreeWords}

Init1854 ==
    /\ peer = <<>>
    /\ board = <<>>
    /\ chip = Cdp1854Default
    /\ pins = Cdp1854PinsAll
    /\ arg \in [control : ResetControls, tr : BOOLEAN, data : {21}]
    /\ cpu = CpuDefault
    /\ mem = Memory(<<>>, <<>>)
    /\ pc = "new"
    /\ clk = 0
    /\ last_mode = "None"
    /\ ret = 0

\* reset: Pins::Clear.set(pins, false); chip.tick_tpb(pins); Pins::Clear.set(pins, true)
Clear1854 ==
    /\ pc = "new"
    /\ \E s \in {tick_tpb(chip, [pins EXCEPT !.clear = FALSE])} :
          /\ chip' = s.chip
          /\ pins' = [s.pins EXCEPT !.clear = TRUE]
    /\ pc' = "cleared"
    /\ UNCHANGED <<board, peer, cpu, mem, clk, last_mode, arg, ret>>

\* reset: write_control(chip, pins, control); Pins::Cts.set(pins, false)
WriteControl ==
    /\ pc = "cleared"
    /\ \E s \in {write_control(chip, pins, control_to_u8(arg.control))} :
          /\ chip' = s.chip
          /\ pins' = [s.pins EXCEPT !.cts = FALSE]
    /\ pc' = "ready"
    /\ UNCHANGED <<board, peer, cpu, mem, clk, last_mode, arg, ret>>

\* write_control(chip, pins, Control::default().with_tr(true))
WriteTr ==
    /\ pc = "ready"
    /\ arg.tr
    /\ \E s \in {write_control(chip, pins, control_to_u8([ControlDefault EXCEPT !.tr = TRUE]))} :
          /\ chip' = s.chip
          /\ pins' = s.pins
    /\ pc' = "tr"
    /\ UNCHANGED <<board, peer, cpu, mem, clk, last_mode, arg, ret>>

\* roundtrip: write_data(chip, pins, value)
WriteData ==
    /\ pc = IF arg.tr THEN "tr" ELSE "ready"
    /\ \E s \in {write_data(chip, pins, arg.data)} :
          /\ chip' = s.chip
          /\ pins' = s.pins
    /\ pc' = "tclock"
    /\ UNCHANGED <<board, peer, cpu, mem, clk, last_mode, arg, ret>>

\* roundtrip: chip.tick_tclock(pins)
LoopTclock ==
    /\ pc = "tclock"
    /\ clk < Max1854Clk
    /\ \E s \in {tick_tclock(chip, pins)} :
          /\ chip' = s.chip
          /\ pins' = s.pins
    /\ pc' = "rclock"
    /\ clk' = clk + 1
    /\ UNCHANGED <<board, peer, cpu, mem, last_mode, arg, ret>>

\* roundtrip: Pins::Sdi.set(pins, Pins::Sdo.get(*pins)); chip.tick_rclock(pins)
LoopRclock ==
    /\ pc = "rclock"
    /\ \E s \in {tick_rclock(chip, [pins EXCEPT !.sdi = pins.sdo])} :
          /\ chip' = s.chip
          /\ pins' = s.pins
    /\ pc' = "tclock"
    /\ UNCHANGED <<board, peer, cpu, mem, clk, last_mode, arg, ret>>

\* chip.tick_tpb(pins) on any input pins.
FreeTpb ==
    /\ pc \in {"ready", "tr", "tclock", "rclock"}
    /\ \E clr, psi, cts \in BOOLEAN, op \in BusOps :
          \E s \in {tick_tpb(chip, [pins EXCEPT !.clear = clr, !.psi = psi, !.cts = cts,
                                                !.tpb = op.tpb, !.rsel = op.rsel,
                                                !.rd_wr = op.rd_wr, !.cs = op.cs,
                                                !.tbus = op.tbus])} :
             /\ chip' = s.chip
             /\ pins' = s.pins
    /\ pc' = "free"
    /\ UNCHANGED <<board, peer, cpu, mem, clk, last_mode, arg, ret>>

\* chip.tick_rclock(pins) after the free tick_tpb, on any SDI.
FreeRclock ==
    /\ pc = "free"
    /\ \E sdi \in BOOLEAN :
          \E s \in {tick_rclock(chip, [pins EXCEPT !.sdi = sdi])} :
             /\ chip' = s.chip
             /\ pins' = s.pins
    /\ pc' = "end"
    /\ UNCHANGED <<board, peer, cpu, mem, clk, last_mode, arg, ret>>

\* chip.tick_tclock(pins) after the free tick_tpb, on the CTS it left.
FreeTclock ==
    /\ pc = "free"
    /\ \E s \in {tick_tclock(chip, pins)} :
          /\ chip' = s.chip
          /\ pins' = s.pins
    /\ pc' = "end"
    /\ UNCHANGED <<board, peer, cpu, mem, clk, last_mode, arg, ret>>

Next1854 ==
    \/ Clear1854
    \/ WriteControl
    \/ WriteTr
    \/ WriteData
    \/ LoopTclock
    \/ LoopRclock
    \/ FreeTpb
    \/ FreeRclock
    \/ FreeTclock

Spec1854 == Init1854 /\ [][Next1854]_vars

(***************************************************************************)
(* The paravirt receive channel, driven as test_pv_rx drives it: a chip    *)
(* with a bounded(1) rx channel is reset, a word is injected and the       *)
(* receiver clock ticks with SDI high; the holding register is read as     *)
(* soon as DA is up.  `peer` is a second chip without a channel, reset the *)
(* same way, whose SDI carries the same word as a frame whose start-bit    *)
(* edge is seen on the tick on which `chip` takes the word off the queue.  *)
(* clk counts the receiver ticks since the injection.                      *)
(***************************************************************************)
MaxPvClk == 176

\* read_status, the call and the deselect.
read_status(c, p) ==
    deselect(tick_tpb(c, [p EXCEPT !.cs = 5, !.rsel = TRUE, !.rd_wr = TRUE]))

\* read_data, the call and the deselect.
read_data(c, p) ==
    deselect(tick_tpb(c, [p EXCEPT !.cs = 5, !.rsel = FALSE, !.rd_wr = TRUE]))

\* reset, after the tick with CLEAR low: CLEAR high and write_control.
reset_control(s, control) ==
    write_control(s.chip, [s.pins EXCEPT !.clear = TRUE], control_to_u8(control))

\* reset, the end: Pins::Cts.set(pins, false)
cts_low(s) == [chip |-> s.chip, pins |-> [s.pins EXCEPT !.cts = FALSE]]

\* reset
reset_1854(c, p, control) ==
    cts_low(reset_control(tick_tpb(c, [p EXCEPT !.clear = FALSE]), control))

\* Bit n of a byte.
bit_of(byte, n) == (byte \div (2 ^ n)) % 2 = 1

\* The parity bit a transmitter in this format sends after the word:
\* Tx::tick starts from 1 for Even and toggles on every 1 sent.
parity_bit(ctrl, byte) ==
    (ctrl.parity = "Even")
        # (Cardinality({n \in 0..(ctrl.word_length - 1) : bit_of(byte, n)}) % 2 = 1)

\* The level of the serial line on receiver tick i (counted from 0) for a
\* frame whose start bit begins on tick 1: 16 ticks per bit, start bit low,
\* the word LSB first, the parity bit if any, then the line high.
wire_sdi(ctrl, byte, i) ==
    IF i < 1 THEN TRUE
    ELSE IF (i - 1) \div 16 = 0 THEN FALSE
    ELSE IF (i - 1) \div 16 <= ctrl.word_length THEN bit_of(byte, ((i - 1) \div 16) - 1)
    ELSE IF (i - 1) \div 16 = ctrl.word_length + 1 /\ ctrl.parity # "None"
    THEN parity_bit(ctrl, byte)
    ELSE TRUE

\* Every format, with IE as in the test.
PvControls ==
    {[control_new(wl, par, sb) EXCEPT !.ie = TRUE] :
        wl \in 5..8, par \in {"None", "Even", "Odd"}, sb \in 1..2}

\* The word injected first, and whether 0xFF follows it as in test_pv_rx.
InitPv ==
    /\ chip = with_pv_rx(Cdp1854Default, Channel(1))
    /\ peer = [chip |-> Cdp1854Default, pins |-> Cdp1854PinsAll]
    /\ board = <<>>
    /\ pins = Cdp1854PinsAll
    /\ arg \in [control : PvControls, first : {17}, second : BOOLEAN]
    /\ cpu = CpuDefault
    /\ mem = Memory(<<>>, <<>>)
    /\ pc = "new"
    /\ clk = 0
    /\ last_mode = "None"
    /\ ret = 0

\* reset(&mut chip, &mut pins, ctrl)
PvReset ==
    /\ pc = "new"
    /\ \E s \in {reset_1854(chip, pins, arg.control)} :
          /\ chip' = s.chip
          /\ pins' = s.pins
    /\ peer' = reset_1854(peer.chip, peer.pins, arg.control)
    /\ pc' = "reset"
    /\ UNCHANGED <<board, cpu, mem, clk, last_mode, arg, ret>>

\* read_status(&mut chip, &mut pins): before the injection, and when DA is up.
PvReadStatus ==
    /\ pc = "reset" \/ (pc = "rx" /\ chip.rx.da)
    /\ \E s \in {read_status(chip, pins)} :
          /\ chip' = s.chip
          /\ pins' = s.pins
          /\ ret' = status_from_u8(s.pins.rbus)
    /\ pc' = IF pc = "reset" THEN "idle" ELSE "status"
    /\ UNCHANGED <<board, peer, cpu, mem, clk, last_mode, arg>>

\* tx.try_send(0x11).unwrap()
PvInject ==
    /\ pc = "idle"
    /\ chip' = [chip EXCEPT !.rx.pv_rx = try_send(@, arg.first)]
    /\ pc' = "rx"
    /\ UNCHANGED <<board, peer, cpu, pins, mem, clk, last_mode, arg, ret>>

\* chip.tick_rclock(&mut pins), and after the third tick
\* tx.try_send(0xff).unwrap(); the peer ticks on the level of its line.
PvTick ==
    /\ pc \in {"rx", "read"}
    /\ ~chip.rx.da
    /\ clk < MaxPvClk
    /\ \E s \in {tick_rclock(chip, pins)} :
          /\ chip' = IF clk = 2 /\ arg.second
                     THEN [s.chip EXCEPT !.rx.pv_rx = try_send(@, 255)]
                     ELSE s.chip
          /\ pins' = s.pins
    /\ peer' = tick_rclock(peer.chip,
                           [peer.pins EXCEPT !.sdi = wire_sdi(arg.control, arg.first, clk)])
    /\ pc' = "rx"
    /\ clk' = clk + 1
    /\ UNCHANGED <<board, cpu, mem, last_mode, arg, ret>>

\* read_data(&mut chip, &mut pins)
PvReadData ==
    /\ pc = "status"
    /\ \E s \in {read_data(chip, pins)} :
          /\ chip' = s.chip
          /\ pins' = s.pins
          /\ ret' = s.pins.rbus
    /\ pc' = "read"
    /\ UNCHANGED <<board, peer, cpu, mem, clk, last_mode, arg>>

NextPv == PvReset \/ PvReadStatus \/ PvInject \/ PvTick \/ PvReadData

SpecPv == InitPv /\ [][NextPv]_vars

(***************************************************************************)
(* The paravirt transmit channel under a free interleaving: a chip built   *)
(* with_pv_tx on a bounded channel is reset as test_pv_tx resets it, and   *)
(* then the CPU writes data words, TPB and the transmitter clock tick and  *)
(* the consumer takes words off the channel, in any order.                 *)
(***************************************************************************)
\* tick_tclock is not called on an idle transmitter whose tick counter has
\* reached this value (the counter of an idle transmitter grows for ever).
MaxPvTxTick == 20

\* Receiver::try_recv at the far end of the tx channel.
try_recv(ch) == IF ch.q # <<>> THEN [ch EXCEPT !.q = Tail(@)] ELSE ch

\* The capacity of the channel and the control word of the reset.
InitPvTx ==
    /\ \E cap \in 1..2 : chip = with_pv_tx(Cdp1854Default, Channel(cap))
    /\ peer = <<>>
    /\ board = <<>>
    /\ pins = Cdp1854PinsAll
    /\ arg \in {[control_new(7, "None", 1) EXCEPT !.ie = TRUE],
                control_new(5, "Even", 2)}
    /\ cpu = CpuDefault
    /\ mem = Memory(<<>>, <<>>)
    /\ pc = "new"
    /\ clk = 0
    /\ last_mode = "None"
    /\ ret = 0

\* reset(&mut chip, &mut pins, ctrl)
PvTxReset ==
    /\ pc = "new"
    /\ \E s \in {reset_1854(chip, pins, arg)} :
          /\ chip' = s.chip
          /\ pins' = s.pins
    /\ pc' = "free"
    /\ UNCHANGED <<board, peer, cpu, mem, clk, last_mode, arg, ret>>

\* write_data(&mut chip, &mut pins, data)
PvTxWrite ==
    /\ pc = "free"
    /\ \E data \in {17, 255} :
          \E s \in {write_data(chip, pins, data)} :
              /\ chip' = s.chip
              /\ pins' = s.pins
    /\ UNCHANGED <<board, peer, cpu, mem, pc, clk, last_mode, arg, ret>>

\* chip.tick_tpb(&mut pins) with the chip deselected, CLEAR high or low for
\* the call.
PvTxTpb ==
    /\ pc = "free"
    /\ \E cl \in BOOLEAN :
          \E s \in {tick_tpb(chip, [pins EXCEPT !.clear = cl])} :
              /\ chip' = s.chip
              /\ pins' = [s.pins EXCEPT !.clear = TRUE]
    /\ UNCHANGED <<board, peer, cpu, mem, pc, clk, last_mode, arg, ret>>

\* chip.tick_tclock(&mut pins)
PvTxTclock ==
    /\ pc = "free"
    /\ chip.tx.state.tag = "Idle" => chip.tx.tick < MaxPvTxTick
    /\ \E s \in {tick_tclock(chip, pins)} :
          /\ chip' = s.chip
          /\ pins' = s.pins
    /\ UNCHANGED <<board, peer, cpu, mem, pc, clk, last_mode, arg, ret>>

\* rx.try_recv() by the consumer; ret is the word taken.
PvTxRecv ==
    /\ pc = "free"
    /\ chip.tx.pv_tx.q # <<>>
    /\ ret' = Head(chip.tx.pv_tx.q)
    /\ chip' = [chip EXCEPT !.tx.pv_tx = try_recv(@)]
    /\ UNCHANGED <<board, peer, cpu, pins, mem, pc, clk, last_mode, arg>>

NextPvTx == PvTxReset \/ PvTxWrite \/ PvTxTpb \/ PvTxTclock \/ PvTxRecv

SpecPvTx == InitPvTx /\ [][NextPvTx]_vars

(***************************************************************************)
(* The Membership Card (systems/mc.rs): the CPU, the memory and a front    *)
(* panel, built without a UART.  `board` holds the front panel, its copy   *)
(* of the last tick, last_pc and the opcode history.                       *)
(***************************************************************************)
OPCODE_HISTORY_LEN == 104

\* FrontPanel::default() (derived)
FrontPanelDefault ==
    [out_buffer |-> 0, inp_buffer |-> 0, inp |-> FALSE, clear |-> FALSE,
     wait |-> FALSE, read |-> FALSE]

\* Builder::build with Builder::default(): the fields of MembershipCard
\* outside the CPU, its pins and the memory.
BoardDefault ==
    [front_panel |-> FrontPanelDefault, last_front_panel |-> FrontPanelDefault,
     last_pc |-> 0, opcode_history |-> <<>>]

\* Builder::build: cpu.reset(&mut cpu_pins) on Cdp1802::default() and
\* Cdp1802Pins::default().
BoardCpu == [cpu |-> tick_reset(CpuDefault),
             pins |-> update_pins(tick_reset(CpuDefault), PinsAllHigh)]

\* MembershipCard::tick, "Propagate signals from front panel" and the /DmaIn
\* latch set on the release of Inp in load mode (invert_ef is false).
mc_front_pins(b, p) ==
    [p EXCEPT !.clear = ~b.front_panel.clear,
              !.wait = ~b.front_panel.wait,
              !.ef = (p.ef % 8) + (IF ~b.front_panel.inp THEN 8 ELSE 0),
              !.dma_in = IF /\ b.front_panel.clear /\ b.front_panel.wait
                            /\ b.last_front_panel.inp /\ ~b.front_panel.inp
                         THEN FALSE ELSE @]

\* MembershipCard::tick, "Update PC": the new last_pc.
mc_last_pc(b, c, m) ==
    IF c.state = State("Fetch", 0) THEN rp(c)
    ELSE IF ~(b.front_panel.clear /\ b.front_panel.wait) THEN b.last_pc
    ELSE IF (IF rp(c) = 0 THEN 0 ELSE rp(c) - 1) > b.last_pc
            /\ (IF rp(c) = 0 THEN 0 ELSE rp(c) - 1) < b.last_pc + 3
    THEN IF (IF rp(c) = 0 THEN 0 ELSE rp(c) - 1) >=
               b.last_pc + (IF get_instr_at(m, b.last_pc) = InstrNone THEN 1
                            ELSE size(get_instr_at(m, b.last_pc)))
         THEN (IF rp(c) = 0 THEN 0 ELSE rp(c) - 1)
         ELSE b.last_pc
    ELSE (IF rp(c) = 0 THEN 0 ELSE rp(c) - 1)

\* MembershipCard::push_opcode_history
push_opcode_history(h, opcode) ==
    IF Len(h) + 1 >= OPCODE_HISTORY_LEN
    THEN Append(SubSeq(h, Len(h) - OPCODE_HISTORY_LEN + 3, Len(h)), opcode)
    ELSE Append(h, opcode)

\* MembershipCard::tick, "Update opcode history".
mc_history(b, c) ==
    IF b.front_panel.clear THEN <<>>
    ELSE IF c.state = State("Execute", 0)
    THEN push_opcode_history(b.opcode_history, c.i * 16 + c.n)
    ELSE b.opcode_history

\* The board's bus stage without the reset of /DmaIn in S2.
mc_bus_keeps_dma_in(b, p) ==
    [p EXCEPT !.bus = IF ~p.mwr /\ ((p.n \div 4) % 2 = 1
                                    \/ (b.front_panel.clear /\ b.front_panel.wait))
                      THEN b.front_panel.inp_buffer ELSE @]

\* MembershipCard::tick, "Reset /DmaIn in S2" and "Propagate input buffer on
\* /MWR when N2 is set or we're in load mode".
mc_bus(b, p) ==
    [p EXCEPT !.dma_in = IF ~p.dma_in /\ p.sc >= 2 THEN TRUE ELSE @,
              !.bus = IF ~p.mwr /\ ((p.n \div 4) % 2 = 1
                                    \/ (b.front_panel.clear /\ b.front_panel.wait))
                      THEN b.front_panel.inp_buffer ELSE @]

\* MembershipCard::tick after the memory tick: "Latch output on data strobe"
\* and the board and system left by the tick.
mc_latch(b, c, r, last_pc, history) ==
    [board |-> [front_panel |->
                    [b.front_panel EXCEPT !.out_buffer =
                        IF /\ ~r.pins.mrd /\ r.pins.tpb
                           /\ ((r.pins.n \div 4) % 2 = 1
                               \/ (b.front_panel.clear /\ b.front_panel.wait))
                        THEN r.pins.bus ELSE @],
                last_front_panel |-> b.front_panel,
                last_pc |-> last_pc,
                opcode_history |-> history],
     cpu |-> c, pins |-> r.pins, mem |-> r.mem]

\* MembershipCard::tick after the CPU tick.
mc_after_cpu(b, a, m) ==
    mc_latch(b, a.cpu, mem_tick(m, mc_bus(b, a.pins), ~b.front_panel.read),
             mc_last_pc(b, a.cpu, m), mc_history(b, a.cpu))

\* MembershipCard::tick
mc_tick(b, c, p, m) == mc_after_cpu(b, tick(c, mc_front_pins(b, p)), m)

(***************************************************************************)
(* SpecMc: the board in load mode.  After the build the CLEAR and WAIT     *)
(* switches are put down, the read/write switch and the input byte are     *)
(* chosen, and then the Inp button is pressed and released at any tick.    *)
(* `ret` observes the run: the release edges the board has seen, those of  *)
(* them seen with no request pending and no DmaIn cycle in progress, and   *)
(* the DmaIn cycles the CPU has entered.                                   *)
(***************************************************************************)
\* The Inp button is pressed at most this many times.
MaxInp == 3

InitMc ==
    /\ board = BoardDefault
    /\ cpu = BoardCpu.cpu
    /\ pins = BoardCpu.pins
    /\ mem = Memory(<<>>, <<>>)
    /\ chip = <<>>
    /\ peer = <<>>
    /\ arg \in [read : BOOLEAN, inp_buffer : {0, 123}]
    /\ pc = "built"
    /\ clk = 0
    /\ last_mode = "None"
    /\ ret = [edges |-> 0, clean |-> 0, cycles |-> 0, presses |-> 0]

\* front_panel_mut(): CLEAR and WAIT down, the read switch and the input byte.
McSetLoad ==
    /\ pc = "built"
    /\ board' = [board EXCEPT !.front_panel.clear = TRUE,
                              !.front_panel.wait = TRUE,
                              !.front_panel.read = arg.read,
                              !.front_panel.inp_buffer = arg.inp_buffer]
    /\ pc' = "load"
    /\ UNCHANGED <<cpu, chip, peer, pins, mem, clk, last_mode, arg, ret>>

\* front_panel_mut().inp = true
McPress ==
    /\ pc = "load"
    /\ ~board.front_panel.inp
    /\ ret.presses < MaxInp
    /\ board' = [board EXCEPT !.front_panel.inp = TRUE]
    /\ ret' = [ret EXCEPT !.presses = @ + 1]
    /\ UNCHANGED <<cpu, chip, peer, pins, mem, pc, clk, last_mode, arg>>

\* front_panel_mut().inp = false
McRelease ==
    /\ pc = "load"
    /\ board.front_panel.inp
    /\ board' = [board EXCEPT !.front_panel.inp = FALSE]
    /\ UNCHANGED <<cpu, chip, peer, pins, mem, pc, clk, last_mode, arg, ret>>

\* The tick sees a release of Inp.
McEdge == board.last_front_panel.inp /\ ~board.front_panel.inp

\* No request is pending and the CPU is not within a DmaIn cycle that will
\* not sample the request.
McClean == pins.dma_in /\ (cpu.state.k = "DmaIn" => cpu.state.t = 7)

\* MembershipCard::tick
McTick ==
    /\ pc = "load"
    /\ \E s \in {mc_tick(board, cpu, pins, mem)} :
          /\ board' = s.board
          /\ cpu' = s.cpu
          /\ pins' = s.pins
          /\ mem' = s.mem
          /\ ret' = [ret EXCEPT
                       !.edges = IF McEdge THEN @ + 1 ELSE @,
                       !.clean = IF McEdge /\ McClean THEN @ + 1 ELSE @,
                       !.cycles = IF s.cpu.state = State("DmaIn", 0) THEN @ + 1 ELSE @]
    /\ UNCHANGED <<chip, peer, pc, clk, last_mode, arg>>

NextMc == McSetLoad \/ McPress \/ McRelease \/ McTick

SpecMc == InitMc /\ [][NextMc]_vars

(***************************************************************************)
(* The input event log (event.rs).  An event is a record of timestamp,     *)
(* kind and value; `pending` is the VecDeque, front first, and `expired`   *)
(* the Vec.  A failed assert! is recorded in `fault`.                      *)
(***************************************************************************)
\* Event::new
Event(timestamp, kind, value) ==
    [timestamp |-> timestamp, kind |-> kind, value |-> value]

\* InputEventLog::default() (derived)
InputEventLogDefault == [pending |-> <<>>, expired |-> <<>>, fault |-> FALSE]

\* Vec::insert / VecDeque::insert(idx, x), idx counted from 0.
insert_at(q, idx, x) == SubSeq(q, 1, idx) \o <<x>> \o SubSeq(q, idx + 1, Len(q))

\* The indices pending.binary_search_by(|e| e.timestamp.cmp(&t)) can return
\* from Ok(idx) | Err(idx) on a queue sorted by timestamp: the index of any
\* one of the matches if there are matches (the library leaves open which),
\* and else the index at which t keeps the queue sorted.
binary_search(q, t) ==
    IF \E i \in 1..Len(q) : q[i].timestamp = t
    THEN {i - 1 : i \in {k \in 1..Len(q) : q[k].timestamp = t}}
    ELSE {Cardinality({k \in 1..Len(q) : q[k].timestamp < t})}

\* InputEventLog::add: the logs it can leave.
log_add(log, event, now) ==
    IF event.timestamp < now
    THEN {[log EXCEPT !.expired = Append(@, event)]}
    ELSE {[log EXCEPT !.pending = insert_at(@, idx, event)] :
             idx \in binary_search(log.pending, event.timestamp)}

\* InputEventLog::clear
log_clear(log) == [log EXCEPT !.pending = <<>>, !.expired = <<>>]

\* InputEventLog::peek_next_at; the kind "None" stands for Option::None.
peek_next_at(log, when) ==
    IF log.pending # <<>> /\ Head(log.pending).timestamp <= when
    THEN Head(log.pending)
    ELSE Event(0, "None", 0)

\* InputEventLog::pop_next_at: the log it leaves (the event returned is
\* peek_next_at of the log before).
pop_next_at(log, when) ==
    IF log.pending # <<>> /\ Head(log.pending).timestamp <= when
    THEN [log EXCEPT !.pending = Tail(@), !.expired = Append(@, Head(log.pending))]
    ELSE log

\* The orders sort_unstable_by(|a, b| a.timestamp.cmp(&b.timestamp)) can
\* leave a vector in: every arrangement of its elements that ascends by
\* timestamp (the order of equal elements is not preserved).
sort_unstable(v) ==
    {[i \in 1..Len(v) |-> v[f[i]]] :
        f \in {g \in [1..Len(v) -> 1..Len(v)] :
                  /\ \A i, j \in 1..Len(v) : i # j => g[i] # g[j]
                  /\ \A i, j \in 1..Len(v) :
                        i < j => v[g[i]].timestamp <= v[g[j]].timestamp}}

\* InputEventLog::reset with the expired events sorted as `sorted`.
log_reset_sorted(log, sorted) ==
    [pending |-> sorted \o log.pending,
     expired |-> <<>>,
     fault |-> \/ log.fault
               \/ /\ sorted # <<>> /\ log.pending # <<>>
                  /\ sorted[Len(sorted)].timestamp > Head(log.pending).timestamp]

\* InputEventLog::reset: the logs it can leave.
log_reset(log) == {log_reset_sorted(log, s) : s \in sort_unstable(log.expired)}

(***************************************************************************)
(* SpecLog: the log alone, under any sequence of add, pop_next_at and      *)
(* reset.  `clk` is the `now` of the last add, `arg` counts the adds and   *)
(* gives each event its value, `ret` is what the last pop returned.        *)
(***************************************************************************)
\* Events are added at most this many times.
MaxAdd == 3

\* Timestamps and times are taken from 0..MaxTime.
MaxTime == 2

InitLog ==
    /\ board = InputEventLogDefault
    /\ cpu = CpuDefault
    /\ chip = <<>>
    /\ peer = <<>>
    /\ pins = PinsAllHigh
    /\ mem = Memory(<<>>, <<>>)
    /\ pc = "log"
    /\ clk = 0
    /\ last_mode = "None"
    /\ arg = 0
    /\ ret = Event(0, "None", 0)

\* log.add(event, now) with now not below the now of the last add.
LogAdd ==
    /\ pc = "log"
    /\ ~board.fault
    /\ arg < MaxAdd
    /\ \E t \in 0..MaxTime, now \in clk..MaxTime :
          /\ board' \in log_add(board, Event(t, "Ef1", arg), now)
          /\ clk' = now
    /\ arg' = arg + 1
    /\ UNCHANGED <<cpu, chip, peer, pins, mem, pc, last_mode, ret>>

\* log.pop_next_at(when)
LogPop ==
    /\ pc = "log"
    /\ ~board.fault
    /\ \E when \in 0..MaxTime :
          /\ ret' = peek_next_at(board, when)
          /\ board' = pop_next_at(board, when)
    /\ UNCHANGED <<cpu, chip, peer, pins, mem, pc, clk, last_mode, arg>>

\* log.reset()
LogReset ==
    /\ pc = "log"
    /\ ~board.fault
    /\ board' \in log_reset(board)
    /\ UNCHANGED <<cpu, chip, peer, pins, mem, pc, clk, last_mode, arg, ret>>

NextLog == LogAdd \/ LogPop \/ LogReset

SpecLog == InitLog /\ [][NextLog]_vars

(***************************************************************************)
(* The basic system (systems/basic.rs): the CPU, the memory, the clock     *)
(* cycle counter and the two event logs.  `board` holds the counter and    *)
(* the logs; `arg` the clock cycle time given to BasicSystem::new.         *)
(***************************************************************************)
\* Bit k (0..3) of the EF pins set to val.
set_ef(ef, k, val) ==
    ef - (((ef \div (2 ^ k)) % 2) * (2 ^ k)) + (IF val THEN 2 ^ k ELSE 0)

\* The port number of an Io kind.
io_port(kind) ==
    CASE kind = "Io1" -> 1 [] kind = "Io2" -> 2 [] kind = "Io3" -> 3
      [] kind = "Io4" -> 4 [] kind = "Io5" -> 5 [] kind = "Io6" -> 6
      [] kind = "Io7" -> 7 [] OTHER -> 0

\* BasicSystem::apply_event and apply_io_port_event
apply_event(p, e) ==
    CASE e.kind = "Intr" -> [p EXCEPT !.intr = e.value > 0]
      [] e.kind = "Ef1" -> [p EXCEPT !.ef = set_ef(@, 0, e.value > 0)]
      [] e.kind = "Ef2" -> [p EXCEPT !.ef = set_ef(@, 1, e.value > 0)]
      [] e.kind = "Ef3" -> [p EXCEPT !.ef = set_ef(@, 2, e.value > 0)]
      [] e.kind = "Ef4" -> [p EXCEPT !.ef = set_ef(@, 3, e.value > 0)]
      [] OTHER -> IF p.mrd /\ io_port(e.kind) = p.n /\ p.n # 0
                  THEN [p EXCEPT !.bus = e.value] ELSE p

\* BasicSystem::now
basic_now(b, cycle_time) == cycle_time * b.clock_cycle

\* BasicSystem::tick, the output events of a tick that ran the devices: the
\* change of Q and the output data strobe.
basic_outputs(out, now, q_prev, p) ==
    (IF p.q # q_prev THEN <<Event(now, "Q", IF p.q THEN 1 ELSE 0)>> ELSE <<>>)
    \o (IF ~p.mrd /\ p.tpb /\ p.n > 0
        THEN <<Event(now, <<"Io", p.n>>, p.bus)>> ELSE <<>>)

\* BasicSystem::tick when no event is due: the Status it returns (no
\* breakpoints are set).
basic_status(c, p) == IF is_waiting(c, p) THEN "Idle" ELSE "Ready"

\* BasicSystem::tick when no event is due, after the devices have ticked.
basic_advance(b, now, q_prev, s) ==
    [board |-> [b EXCEPT !.output_events = @ \o basic_outputs(@, now, q_prev, s.pins),
                         !.clock_cycle = @ + 1],
     cpu |-> s.cpu, pins |-> s.pins, mem |-> s.mem,
     status |-> basic_status(s.cpu, s.pins)]

\* BasicSystem::tick
basic_tick(b, c, p, m, cycle_time) ==
    IF peek_next_at(b.input_events, basic_now(b, cycle_time)).kind # "None"
    THEN [board |-> [b EXCEPT !.input_events =
                                 pop_next_at(@, basic_now(b, cycle_time))],
          cpu |-> c,
          pins |-> apply_event(p, peek_next_at(b.input_events,
                                               basic_now(b, cycle_time))),
          mem |-> m, status |-> "Event"]
    ELSE basic_advance(b, basic_now(b, cycle_time), p.q, sys_tick(c, p, m))

RECURSIVE cpu_tick_n(_, _)
\* BasicSystem::reset, `for _ in 0..9 { self.cpu.tick(&mut self.pins) }`
cpu_tick_n(s, n) == IF n = 0 THEN s ELSE cpu_tick_n(tick(s.cpu, s.pins), n - 1)

\* BasicSystem::reset, the CPU and the pins: one tick with CLEAR low and
\* WAIT high, nine with CLEAR high.
basic_reset_cpu(c, p) ==
    cpu_tick_n([tick(c, [p EXCEPT !.wait = TRUE, !.clear = FALSE])
                   EXCEPT !.pins.clear = TRUE], 9)

\* BasicSystem::reset, the counter and the logs, with the input log as
\* InputEventLog::reset left it.
basic_reset_board(b, log) ==
    [b EXCEPT !.clock_cycle = 0, !.input_events = log, !.output_events = <<>>]

\* BasicSystem::new: the counter and the logs.
BasicDefault ==
    [clock_cycle |-> 0, input_events |-> InputEventLogDefault,
     output_events |-> <<>>]

(***************************************************************************)
(* SpecBasic: a basic system over an empty memory.  Events are added with  *)
(* add_event at any point, the system ticks, and it may be reset.  `ret`   *)
(* holds the Status of the last tick and the events applied since the      *)
(* last reset, in the order of their application; an event's value is the  *)
(* number of events added before it.                                       *)
(***************************************************************************)
\* The devices advance only while the clock cycle is below this.
MaxBasicCycle == 4

InitBasic ==
    /\ board = BasicDefault
    /\ \E s \in {basic_reset_cpu(CpuDefault, PinsAllHigh)} :
          /\ cpu = s.cpu
          /\ pins = s.pins
    /\ mem = Memory(<<>>, <<>>)
    /\ chip = <<>>
    /\ peer = <<>>
    /\ arg \in [cycle_time : {1, 3}, added : {0}]
    /\ pc = "basic"
    /\ clk = 0
    /\ last_mode = "None"
    /\ ret = [status |-> "Ready", applied |-> <<>>]

\* BasicSystem::add_event
BasicAdd ==
    /\ pc = "basic"
    /\ ~board.input_events.fault
    /\ arg.added < MaxAdd
    /\ \E t \in 0..MaxTime, kind \in {"Ef1", "Intr"} :
          \E log \in log_add(board.input_events, Event(t, kind, arg.added),
                             basic_now(board, arg.cycle_time)) :
              board' = [board EXCEPT !.input_events = log]
    /\ arg' = [arg EXCEPT !.added = @ + 1]
    /\ UNCHANGED <<cpu, chip, peer, pins, mem, pc, clk, last_mode, ret>>

\* BasicSystem::tick
BasicTick ==
    /\ pc = "basic"
    /\ ~board.input_events.fault
    /\ board.clock_cycle < MaxBasicCycle
    /\ \E s \in {basic_tick(board, cpu, pins, mem, arg.cycle_time)} :
          /\ board' = s.board
          /\ cpu' = s.cpu
          /\ pins' = s.pins
          /\ mem' = s.mem
          /\ ret' = [status |-> s.status,
                     applied |-> IF s.status = "Event"
                                 THEN Append(ret.applied, Head(board.input_events.pending))
                                 ELSE ret.applied]
    /\ UNCHANGED <<chip, peer, pc, clk, last_mode, arg>>

\* BasicSystem::reset
BasicReset ==
    /\ pc = "basic"
    /\ ~board.input_events.fault
    /\ \E s \in {basic_reset_cpu(cpu, pins)} :
          /\ cpu' = s.cpu
          /\ pins' = s.pins
    /\ \E log \in log_reset(board.input_events) :
          board' = basic_reset_board(board, log)
    /\ ret' = [status |-> "Ready", applied |-> <<>>]
    /\ UNCHANGED <<chip, peer, mem, pc, clk, last_mode, arg>>

NextBasic == BasicAdd \/ BasicTick \/ BasicReset

SpecBasic == InitBasic /\ [][NextBasic]_vars

(***************************************************************************)
(* SpecOp: the default CPU over a memory that holds one opcode at address  *)
(* 0 and zeros (IDL) elsewhere.  On every tick the environment chooses the *)
(* mode (CLEAR, WAIT) and, at the sub-ticks where the CPU samples them,    *)
(* the DMAIN, DMAOUT and INTR requests; an external device holds a byte on *)
(* BUS during DmaIn cycles and the Execute cycle of INP.  Every opcode is  *)
(* run from power-on in Run mode; for SEQ and LBR (a long branch back to   *)
(* address 0) the environment also switches between the four modes at any  *)
(* sub-tick.                                                               *)
(***************************************************************************)
\* Number of ticks explored in modes other than Pause.
MaxOpClk == 34

\* The opcodes placed at address 0.
OpCodes == 0..255

\* The opcodes under which the environment switches modes.
ModeOps == {123, 192}

InitOp ==
    /\ peer = <<>>
    /\ board = <<>>
    /\ chip = <<>>
    /\ arg \in [op : OpCodes, v : {90}]
    /\ cpu = CpuDefault
    /\ pins = PinsAllHigh
    /\ mem = Memory(<<arg.op>>, <<<<0, 0>>>>)
    /\ pc = "op"
    /\ clk = 0
    /\ last_mode = "None"
    /\ ret = 0

\* TestSystem::tick with CLEAR and WAIT set for mode m.
OpTick(m) ==
    /\ pc = "op"
    /\ clk < MaxOpClk
    /\ arg.op \notin ModeOps => m = "Run"
    /\ ~cpu.fault
    /\ \E di, do, it \in BOOLEAN :
          /\ ~(di /\ do /\ it) => cpu.state.t \in SampleTicks
          /\ \E s \in {sys_tick(cpu, [CyclePins(di, do, it) EXCEPT
                                        !.clear = m \in {"Pause", "Run"},
                                        !.wait = m \in {"Reset", "Run"}], mem)} :
                /\ cpu' = s.cpu
                /\ pins' = s.pins
                /\ mem' = s.mem
    /\ clk' = IF m = "Pause" THEN clk ELSE clk + 1
    /\ last_mode' = m
    /\ UNCHANGED <<board, peer, chip, pc, arg, ret>>

OpReset == OpTick("Reset")

OpLoad == OpTick("Load")

OpPause == OpTick("Pause")

OpRun == OpTick("Run")

NextOp == OpReset \/ OpLoad \/ OpPause \/ OpRun

SpecOp == InitOp /\ [][NextOp]_vars

(***************************************************************************)
(* SpecIntr: interrupts of the CPU in Run mode.  The memory holds one      *)
(* opcode at address 0 and zeros (IDL) elsewhere; the interrupt vector     *)
(* R[1] is 0, so the opcode is also the interrupt service routine.  The    *)
(* environment ticks the default CPU in Run mode and may reset it while an *)
(* interrupt is being served; it                                           *)
(* lowers INTR at any tick and then holds it low until an Interrupt cycle  *)
(* runs, and chooses DMAIN and DMAOUT at the sampling sub-ticks.  `ret`    *)
(* records                                                                 *)
(* the history the claims speak of: `low` counts the consecutive Run ticks *)
(* so far with INTR low, DMAIN and DMAOUT high and IE true that have not   *)
(* led into an Interrupt cycle, `init` how many of them were ticks of the  *)
(* Init cycle; `serving` holds from sub-tick 0 of an Interrupt cycle until *)
(* RET executes or the CPU is reset; `nested` records an Interrupt cycle   *)
(* entered while `serving`.                                                *)
(***************************************************************************)
\* Number of Run and Reset ticks explored.
MaxIntrClk == 60

\* The opcodes placed at address 0: IDL, RET, DIS, LBR.
IntrOps == {0, 112, 113, 192}

IntrHistory(low, init, serving, nested) ==
    [low |-> low, init |-> init, serving |-> serving, nested |-> nested]

InitIntr ==
    /\ peer = <<>>
    /\ board = <<>>
    /\ chip = <<>>
    /\ arg \in [op : IntrOps, v : {90}]
    /\ cpu = CpuDefault
    /\ pins = PinsAllHigh
    /\ mem = Memory(<<arg.op>>, <<<<0, 0>>>>)
    /\ pc = "intr"
    /\ clk = 0
    /\ last_mode = "None"
    /\ ret = IntrHistory(0, 0, FALSE, FALSE)

\* TestSystem::tick with CLEAR and WAIT high.
IntrRun ==
    /\ pc = "intr"
    /\ clk < MaxIntrClk
    /\ ~cpu.fault
    /\ \E di, do, it \in BOOLEAN :
          /\ ~(di /\ do) => cpu.state.t \in SampleTicks
          /\ (~pins.intr /\ cpu.state.k # "Interrupt") => ~it
          /\ \E s \in {sys_tick(cpu, [CyclePins(di, do, it) EXCEPT
                                        !.clear = TRUE, !.wait = TRUE], mem)} :
                /\ cpu' = s.cpu
                /\ pins' = s.pins
                /\ mem' = s.mem
                /\ ret' = LET held == ~it /\ di /\ do /\ cpu.ie /\ s.cpu.ie
                                        /\ s.cpu.state.k # "Interrupt"
                              entered == s.cpu.state = State("Interrupt", 0)
                          IN IntrHistory(
                                IF held THEN ret.low + 1 ELSE 0,
                                IF ~held THEN 0
                                ELSE IF cpu.state.k = "Init" THEN ret.init + 1
                                ELSE ret.init,
                                IF cpu.state = State("Interrupt", 0) THEN TRUE
                                ELSE IF cpu.state = State("Execute", 3)
                                          /\ cpu.i = 7 /\ cpu.n = 0 THEN FALSE
                                ELSE ret.serving,
                                ret.nested \/ (entered /\ ret.serving))
    /\ clk' = clk + 1
    /\ last_mode' = "Run"
    /\ UNCHANGED <<board, peer, chip, pc, arg>>

\* TestSystem::tick with CLEAR low and WAIT high.
IntrReset ==
    /\ pc = "intr"
    /\ clk < MaxIntrClk
    /\ ret.serving
    /\ ~cpu.fault
    /\ \E s \in {sys_tick(cpu, [pins EXCEPT !.clear = FALSE, !.wait = TRUE], mem)} :
          /\ cpu' = s.cpu
          /\ pins' = s.pins
          /\ mem' = s.mem
    /\ ret' = IntrHistory(0, 0, FALSE, ret.nested)
    /\ clk' = clk + 1
    /\ last_mode' = "Reset"
    /\ UNCHANGED <<board, peer, chip, pc, arg>>

NextIntr == IntrRun \/ IntrReset

SpecIntr == InitIntr /\ [][NextIntr]_vars

(***************************************************************************)
(* SpecTx: the AY-5-1013 transmitter under a stream of DS strobes.  The    *)
(* chip is configured as the tests do; from then on every step is one      *)
(* Tx::tick on the pin bundle (the receiver and the chip's cycle counter   *)
(* are not read by the transmitter and are left out).  The environment     *)
(* lowers DS, with a byte on DB, only while the TBMT pin is high, holds it *)
(* low for one or more ticks and releases it.  `ret` is a line monitor on  *)
(* SO: `sent` lists the bytes strobed so far, `got` the frames it has      *)
(* read, sampling SO in the middle of every bit time; `bad` records a      *)
(* frame with a wrong start, parity or stop bit.                           *)
(***************************************************************************)
\* Number of bytes strobed.
MaxStrobes == 3

\* The modes of test_tx_5e1_with_buffering, test_tx_8n1 and test_tx_5o2.
TxModes == {[char_bits |-> 5, parity |-> "Even", stop_bits |-> 1],
            [char_bits |-> 8, parity |-> "None", stop_bits |-> 1],
            [char_bits |-> 5, parity |-> "Odd", stop_bits |-> 2]}

\* The bytes strobed: 0x08 and 0x0f of the buffering test, and 0x53.
TxWords == {8, 15, 83}

\* The line monitor before the first frame.
MonitorDefault ==
    [st |-> "idle", n |-> 0, bits |-> <<>>, sent |-> <<>>, got |-> <<>>, bad |-> FALSE]

\* Number of bit times of a frame: start, data, parity, stop.
frame_bits(ctrl) ==
    1 + ctrl.char_bits + (IF ctrl.parity = "None" THEN 0 ELSE 1) + ctrl.stop_bits

RECURSIVE bits_value(_, _, _)
\* The value of bits[from..to], least significant bit first.
bits_value(bits, from, to) ==
    IF from > to THEN 0
    ELSE (IF bits[from] THEN 1 ELSE 0) + 2 * bits_value(bits, from + 1, to)

RECURSIVE bits_xor(_, _, _)
\* The exclusive or of bits[from..to].
bits_xor(bits, from, to) ==
    IF from > to THEN FALSE ELSE bits[from] # bits_xor(bits, from + 1, to)

\* A whole frame as the chip defines it: start bit low, the parity bit the
\* mode asks for, stop bits high.
frame_ok(bits, ctrl) ==
    /\ ~bits[1]
    /\ ctrl.parity # "None" =>
          bits[ctrl.char_bits + 2]
             = ((ctrl.parity = "Even") # bits_xor(bits, 2, ctrl.char_bits + 1))
    /\ \A k \in 1..ctrl.stop_bits : bits[frame_bits(ctrl) - k + 1]

\* The monitor after one tick that left SO at `so`: a low line starts a
\* frame, the line is sampled 8 ticks into each bit time, and the frame
\* ends with the sample of the last stop bit.
monitor(o, so, ctrl) ==
    IF o.st = "idle"
    THEN IF so THEN o ELSE [o EXCEPT !.st = "frame", !.n = 0, !.bits = <<>>]
    ELSE IF (o.n + 1) % 16 # 8 THEN [o EXCEPT !.n = o.n + 1]
    ELSE IF Len(o.bits) + 1 < frame_bits(ctrl)
    THEN [o EXCEPT !.n = o.n + 1, !.bits = Append(o.bits, so)]
    ELSE [o EXCEPT !.st = "idle", !.n = 0, !.bits = <<>>,
                   !.got = Append(o.got,
                                  bits_value(Append(o.bits, so), 2, ctrl.char_bits + 1)),
                   !.bad = o.bad \/ ~frame_ok(Append(o.bits, so), ctrl)]

\* chip.configure(&mut pins, mode) on a fresh chip and pin bundle.
InitTx ==
    /\ peer = <<>>
    /\ board = <<>>
    /\ arg \in TxModes
    /\ \E s \in {configure(Ay51013Default, Ay51013PinsDefault,
                           arg.char_bits, arg.parity, arg.stop_bits)} :
          /\ chip = [ctrl |-> s.chip.ctrl, tx |-> s.chip.tx]
          /\ pins = s.pins
    /\ cpu = CpuDefault
    /\ mem = Memory(<<>>, <<>>)
    /\ pc = "tx"
    /\ clk = 0
    /\ last_mode = "None"
    /\ ret = MonitorDefault

\* Tx::tick on the pin bundle p, then the monitor reads SO.
TxTick(p, sent) ==
    /\ pc = "tx"
    /\ \E t \in {tx_tick(chip.tx, chip.ctrl, p)} :
          /\ chip' = [chip EXCEPT !.tx = t]
          /\ pins' = tx_pins(t, p)
          /\ ret' = [monitor(ret, t.so, chip.ctrl) EXCEPT !.sent = sent]
    /\ UNCHANGED <<board, peer, cpu, mem, pc, clk, last_mode, arg>>

\* pins.set_db(value); pins.set_ds(false); chip.tick(pins), while TBMT is high.
TxStrobe ==
    /\ pins.ds
    /\ pins.tbmt
    /\ Len(ret.sent) < MaxStrobes
    /\ \E b \in TxWords : TxTick([pins EXCEPT !.db = b, !.ds = FALSE], ret.sent)

\* chip.tick(pins) with DS still low.
TxHold ==
    /\ ~pins.ds
    /\ TxTick(pins, ret.sent)

\* pins.set_ds(true); chip.tick(pins): the rising edge latches the byte.
TxRelease ==
    /\ ~pins.ds
    /\ TxTick([pins EXCEPT !.ds = TRUE], Append(ret.sent, pins.db))

\* pins.set_db(0xff); chip.tick(pins) with DS high.
TxIdle ==
    /\ pins.ds
    /\ TxTick([pins EXCEPT !.db = 255], ret.sent)

NextTx == TxStrobe \/ TxHold \/ TxRelease \/ TxIdle

SpecTx == InitTx /\ [][NextTx]_vars

(***************************************************************************)
(* Properties.                                                             *)
(***************************************************************************)
\* The opcode and the two operand bytes at address 0.
Opcode0 == mem_read(mem.data, 0)

Operand1 == mem_read(mem.data, 1)

Operand2 == mem_read(mem.data, 2)

\* The long branches proper and the long skips (NOP included) of C0..CF.
BranchOps == {192, 193, 194, 195, 201, 202, 203}

SkipOps == LongOps \ BranchOps

\* The condition the instruction set gives each opcode of C0..CF:
\* LBR, LBQ, LBZ, LBDF, NOP, LSNQ, LSNZ, LSNF, LSKP, LBNQ, LBNZ, LBNF,
\* LSIE, LSQ, LSZ, LSDF.
IsaCond(op, c) ==
    CASE op = 192 -> TRUE
      [] op = 193 -> c.out.q
      [] op = 194 -> c.d = 0
      [] op = 195 -> c.df
      [] op = 196 -> FALSE
      [] op = 197 -> ~c.out.q
      [] op = 198 -> c.d # 0
      [] op = 199 -> ~c.df
      [] op = 200 -> TRUE
      [] op = 201 -> ~c.out.q
      [] op = 202 -> c.d # 0
      [] op = 203 -> ~c.df
      [] op = 204 -> c.ie
      [] op = 205 -> c.out.q
      [] op = 206 -> c.d = 0
      [] op = 207 -> c.df

\* The test has run one Fetch and one 16-tick Execute of the opcode at 0.
AfterFirstInstr == pc = "run" /\ clk = 24

\* C2 as stated: every opcode of C0..CF, skips and NOP included, consumes two
\* operand bytes: R[P] is (first operand, second operand) when its condition
\* holds and 3, two past the address following the opcode, when it does not.
C2_AllLongOpsConsumeOperands ==
    (AfterFirstInstr /\ Opcode0 \in LongOps) =>
        rp(cpu) = IF IsaCond(Opcode0, cpu) THEN Operand1 * 256 + Operand2 ELSE 3

\* C2 amended: the long branches C0..C3 and C9..CB consume two operand bytes:
\* R[P] is (first operand latched in B, second operand) when the condition
\* holds and two past the address following the opcode when it does not.
C2_LongBranch ==
    (AfterFirstInstr /\ Opcode0 \in BranchOps) =>
        /\ cpu.state = State("Fetch", 0)
        /\ rp(cpu) = IF IsaCond(Opcode0, cpu) THEN Operand1 * 256 + Operand2 ELSE 3
        /\ cpu.b = Operand1

C2_Witness ==
    /\ AfterFirstInstr
    /\ Opcode0 = 202
    /\ cpu.d = 1
    /\ rp(cpu) = 21930

\* C3: a long skip at address 0 leaves the CPU at Fetch(0) after 24 Run ticks
\* with R[P] = 3 when its condition holds and R[P] = 1 when it does not,
\* whatever the EF pins and the two bytes after the opcode are.
C3_LongSkips ==
    (AfterFirstInstr /\ Opcode0 \in SkipOps) =>
        /\ cpu.state = State("Fetch", 0)
        /\ rp(cpu) = IF IsaCond(Opcode0, cpu) THEN 3 ELSE 1

\* C9: from power-on with CLEAR = WAIT = 1 and zeroed memory the CPU is in
\* Init(1) after 1 tick, Fetch(0) after 9, Execute(0) after 17 and Execute(7)
\* after 24, where is_waiting() holds.
C9_InitFromPowerOn ==
    pc = "poweron" =>
        /\ clk = 1 => cpu.state = State("Init", 1) /\ ~is_waiting(cpu, pins)
        /\ clk = 9 => cpu.state = State("Fetch", 0)
        /\ clk = 17 => cpu.state = State("Execute", 0)
        /\ clk = 24 => cpu.state = State("Execute", 7) /\ is_waiting(cpu, pins)
        /\ clk = 25 => cpu.state = State("Execute", 0)

C9_Witness == pc = "poweron" /\ clk = 24 /\ is_waiting(cpu, pins)

\* C10: the page-boundary program is at Fetch(0) with R[P] = 0x01FE after 24
\* Run ticks and at Fetch(0) with R[P] = 0x55AA after 24 more.
C10_LbrAtPageBoundary ==
    (pc = "run" /\ Opcode0 = 192 /\ Operand1 = 1 /\ Operand2 = 254) =>
        /\ clk = 24 => cpu.state = State("Fetch", 0) /\ rp(cpu) = 510
        /\ clk = 48 => cpu.state = State("Fetch", 0) /\ rp(cpu) = 21930

C10_Witness ==
    /\ pc = "run"
    /\ clk = 48
    /\ mem_read(mem.data, 511) = 85
    /\ cpu.b = 85
    /\ rp(cpu) = 21930

\* The next cycle the priority rule of sample_dma_intr selects, `idle` being
\* the cycle taken when nothing is pending.
Priority(p, ie, idle) ==
    IF ~p.dma_in THEN State("DmaIn", 0)
    ELSE IF ~p.dma_out THEN State("DmaOut", 0)
    ELSE IF ~p.intr /\ ie THEN State("Interrupt", 0)
    ELSE idle

\* The last sub-tick of an Execute, DmaIn, DmaOut or Interrupt cycle in Run mode.
SamplingPoint(c) ==
    \/ c.state.k = "Execute" /\ c.state.t = (IF c.i = 12 THEN 15 ELSE 7)
    \/ c.state.k \in {"DmaIn", "DmaOut", "Interrupt"} /\ c.state.t = 7

\* The step is a tick in Load mode that is processed as a Load tick.
LoadStep == last_mode' = "Load" /\ cpu.prev_mode \notin {"Run", "Pause"}

C4_PriorityElseFetch ==
    [][(last_mode' = "Run" /\ SamplingPoint(cpu)) =>
          cpu'.state = Priority(pins', cpu.ie, State("Fetch", 0))]_vars

\* C4 amended: in Run mode, at every sampling point the next cycle is DmaIn if
\* DMAIN is low, else DmaOut if DMAOUT is low, else Interrupt if INTR is low
\* and IE is true, else Fetch, or Execute again when the opcode is IDL; no
\* Interrupt cycle is entered while IE is false.
C4_Priority ==
    [][last_mode' = "Run" =>
          /\ SamplingPoint(cpu) =>
                cpu'.state = Priority(pins', cpu.ie,
                                 IF cpu.state.k = "Execute" /\ cpu.i = 0 /\ cpu.n = 0
                                 THEN State("Execute", 0) ELSE State("Fetch", 0))
          /\ (cpu'.state = State("Interrupt", 0) /\ cpu.state # cpu'.state) =>
                cpu.ie /\ ~pins'.intr /\ pins'.dma_in /\ pins'.dma_out]_vars

C4_Witness ==
    /\ last_mode = "Run"
    /\ cpu.state = State("DmaIn", 0)
    /\ cpu.i = 12
    /\ cpu.ie
    /\ ~pins.dma_in /\ ~pins.intr

\* C5: after a Reset tick the CPU is in Init(0); each Run tick then advances
\* Init by one sub-tick up to Init(8), nine ticks in all, and with DMAIN and
\* DMAOUT high the cycle after Init(8) is Fetch(0) even while INTR is low.
C5_ResetToRun ==
    [][/\ last_mode' = "Reset" => cpu'.state = State("Init", 0)
       /\ (last_mode' = "Run" /\ pc = "any" /\ cpu.state.k = "Init") =>
            /\ cpu.state.t < 8 => cpu'.state = State("Init", cpu.state.t + 1)
            /\ (cpu.state.t = 8 /\ pins'.dma_in /\ pins'.dma_out) =>
                  cpu'.state = State("Fetch", 0)]_vars

C5_Witness ==
    /\ pc = "any"
    /\ clk = 10
    /\ last_mode = "Run"
    /\ cpu.state = State("Fetch", 0)
    /\ cpu.ie
    /\ ~pins.intr

\* C6: a Load tick that immediately follows a Run tick or a Pause tick
\* performs one reset step: I = N = 0, IE = true, state = Init(0).
C6_LoadAfterRunOrPauseResets ==
    [][(last_mode \in {"Run", "Pause"} /\ last_mode' = "Load") =>
          /\ cpu'.i = 0 /\ cpu'.n = 0 /\ cpu'.ie
          /\ cpu'.state = State("Init", 0)]_vars

\* C7 as stated: TPA is raised at sub-tick 1 and lowered at sub-tick 2 of every
\* machine cycle in Run and Load mode, except that it stays low in the DmaIn
\* cycles of Load mode.
C7_TpaExceptLoadDmaIn ==
    [][(last_mode' = "Run" \/ LoadStep) =>
          IF last_mode' = "Load" /\ cpu.state.k = "DmaIn"
          THEN ~pins'.tpa
          ELSE /\ cpu.state.t % 8 = 1 => pins'.tpa
               /\ cpu.state.t % 8 = 2 => ~pins'.tpa]_vars

\* C7 amended: TPA is raised at sub-tick 1 of every machine cycle in Run mode
\* and of the DmaIn cycles in Load mode, is left as it was at sub-tick 1 of
\* the Init and Execute cycles in Load mode, and is lowered at sub-tick 2 of
\* every machine cycle in both modes.
C7_Tpa ==
    [][(last_mode' = "Run" \/ LoadStep) =>
          /\ (cpu.state.t % 8 = 1 /\ (last_mode' = "Run" \/ cpu.state.k = "DmaIn"))
                => pins'.tpa
          /\ (cpu.state.t % 8 = 1 /\ last_mode' = "Load" /\ cpu.state.k # "DmaIn")
                => pins'.tpa = pins.tpa
          /\ cpu.state.t % 8 = 2 => ~pins'.tpa]_vars

C7_Witness ==
    /\ last_mode = "Load"
    /\ cpu.state = State("DmaIn", 2)
    /\ pins.tpa

\* C8 as stated: in Run mode the Execute cycle of every opcode other than IDL
\* goes on from Execute(7) to Execute(8), lasting 16 sub-ticks.
C8_ExecuteSixteen ==
    [][(last_mode' = "Run" /\ cpu.state = State("Execute", 7)
          /\ ~(cpu.i = 0 /\ cpu.n = 0)) =>
          cpu'.state = State("Execute", 8)]_vars

\* C8 amended: in Run mode the Execute cycle lasts 16 sub-ticks for the
\* opcodes C0..CF and 8 sub-ticks for every other opcode; the next cycle
\* begins only after the last sub-tick.
C8_ExecuteLength ==
    [][(last_mode' = "Run" /\ cpu.state.k = "Execute") =>
          IF cpu.state.t < (IF cpu.i = 12 THEN 15 ELSE 7)
          THEN cpu'.state = State("Execute", cpu.state.t + 1)
          ELSE cpu'.state.t = 0]_vars

C8_Witness ==
    /\ last_mode = "Run"
    /\ cpu.state = State("Fetch", 0)
    /\ cpu.i = 7 /\ cpu.n = 11
    /\ pins.q

\* The registers of the CPU: everything but the cycle state, the buffered
\* output pins other than Q, the EF latch and the mode history.
Registers(c) ==
    <<c.d, c.df, c.b, c.r, c.p, c.x, c.i, c.n, c.t, c.ie, c.out.q>>

\* C12: while the opcode is IDL in Run mode, the cycle after Execute(7) is
\* Execute(0) if and only if DMAIN and DMAOUT are high and INTR is high or IE
\* is false, and otherwise DmaIn, DmaOut or Interrupt by priority; no tick of
\* the idle Execute cycle changes a register.
C12_IdleLoop ==
    [][(last_mode' = "Run" /\ cpu.state.k = "Execute" /\ cpu.i = 0 /\ cpu.n = 0) =>
          /\ Registers(cpu') = Registers(cpu)
          /\ cpu.state.t < 7 => cpu'.state = State("Execute", cpu.state.t + 1)
          /\ cpu.state.t = 7 =>
                /\ cpu'.state = State("Execute", 0)
                      <=> (pins'.dma_in /\ pins'.dma_out /\ (pins'.intr \/ ~cpu.ie))
                /\ cpu'.state = Priority(pins', cpu.ie, State("Execute", 0))]_vars

C12_Witness ==
    /\ last_mode = "Run"
    /\ cpu.prev_mode = "Run"
    /\ cpu.state = State("Execute", 0)
    /\ cpu.i = 0 /\ cpu.n = 0
    /\ cpu.r[cpu.p] = 0
    /\ ~cpu.out.mrd

\* C11: a Fetch cycle reads the opcode from memory at R[P]; it leaves
\* R[P] = (old R[P] + 1) mod 2^16 when the opcode is not 0x00 and R[P]
\* unchanged when it is 0x00.  The opcode is latched and R[P] stepped at
\* sub-tick 3; no other sub-tick of the cycle changes a register R[k] or P.
C11_FetchIncrements ==
    [][(pc = "cycle" /\ cpu.state.k = "Fetch") =>
          /\ cpu'.p = cpu.p
          /\ cpu.state.t # 3 => cpu'.r = cpu.r
          /\ cpu.state.t = 3 =>
                /\ cpu'.i * 16 + cpu'.n = mem_read(mem.data, cpu.r[cpu.p])
                /\ cpu'.r = [cpu.r EXCEPT ![cpu.p] =
                                IF mem_read(mem.data, cpu.r[cpu.p]) # 0
                                THEN (@ + 1) % 65536 ELSE @]]_vars

C11_Witness ==
    /\ pc = "cycle"
    /\ arg.pcv = 65535
    /\ cpu.state = State("Fetch", 4)
    /\ cpu.i * 16 + cpu.n = 123
    /\ cpu.p = 3
    /\ cpu.r[3] = 0

\* C13: on sub-tick 0 of an Interrupt cycle T becomes (old X << 4) | old P,
\* X becomes 2, P becomes 1 and IE false; the later sub-ticks leave them
\* alone, and no sub-tick of the cycle changes D, DF, B, I, N, R[0..15] or Q.
C13_InterruptLatch ==
    [][(pc = "cycle" /\ cpu.state.k = "Interrupt") =>
          /\ <<cpu'.d, cpu'.df, cpu'.b, cpu'.i, cpu'.n, cpu'.r, cpu'.out.q>>
                = <<cpu.d, cpu.df, cpu.b, cpu.i, cpu.n, cpu.r, cpu.out.q>>
          /\ cpu.state.t = 0 =>
                /\ cpu'.t = cpu.x * 16 + cpu.p
                /\ cpu'.x = 2 /\ cpu'.p = 1 /\ ~cpu'.ie
          /\ cpu.state.t # 0 =>
                <<cpu'.t, cpu'.x, cpu'.p, cpu'.ie>> = <<cpu.t, cpu.x, cpu.p, cpu.ie>>]_vars

C13_Witness ==
    /\ pc = "cycle"
    /\ arg.x = 5
    /\ cpu.state = State("Interrupt", 1)
    /\ cpu.t = 83
    /\ cpu.x = 2 /\ cpu.p = 1 /\ ~cpu.ie

\* C14 as stated: a DmaIn cycle composed with the memory, a device holding
\* v on BUS, lasts exactly 8 ticks, increments R[0] by one (mod 2^16) and
\* leaves v stored at the address R[0] held at the start of the cycle.
C14_DmaInStores ==
    [][(pc = "cycle" /\ cpu.state.k = "DmaIn") =>
          /\ cpu.state.t < 7 => cpu'.state = State("DmaIn", cpu.state.t + 1)
          /\ cpu.state.t = 7 => cpu'.state.t = 0
          /\ cpu'.r[0] = IF cpu.state.t = 4 THEN (cpu.r[0] + 1) % 65536 ELSE cpu.r[0]
          /\ cpu.state.t = 7 =>
                mem_read(mem'.data, (cpu.r[0] + 65535) % 65536) = arg.v]_vars

\* C15: in every tick in which the CPU executes an INP instruction (Execute
\* cycle, I = 6, N in 9..15) the CPU tick leaves BUS as the device held it
\* before the tick, also while MWR is low.
C15_InpLeavesBus ==
    [][(pc = "cycle" /\ cpu.state.k = "Execute" /\ cpu.i = 6 /\ cpu.n >= 9) =>
          pins'.bus = arg.v]_vars

C15_Witness ==
    /\ pc = "cycle"
    /\ cpu.state = State("Execute", 7)
    /\ cpu.i = 6 /\ cpu.n = 10
    /\ ~pins.mwr
    /\ pins.bus = arg.v
    /\ cpu.out.bus # arg.v
    /\ cpu.d = arg.v

\* C16: SD (F5) with D = y and M[R[X]] = x leaves D = (x - y) mod 256 and
\* DF = (x >= y).  The result is formed at sub-tick 3 of the Execute cycle;
\* the other sub-ticks leave D and DF alone.
C16_SubtractConvention ==
    [][(pc = "cycle" /\ cpu.state.k = "Execute" /\ cpu.i = 15 /\ cpu.n = 5) =>
          IF cpu.state.t = 3
          THEN /\ cpu.d = arg.d
               /\ mem_read(mem.data, cpu.r[cpu.x]) = arg.m
               /\ cpu'.d = (arg.m - arg.d + 256) % 256
               /\ cpu'.df = (arg.m >= arg.d)
          ELSE cpu'.d = cpu.d /\ cpu'.df = cpu.df]_vars

C16_Witness ==
    /\ pc = "cycle"
    /\ arg.m = 127 /\ arg.d = 128
    /\ cpu.state = State("Execute", 4)
    /\ cpu.i = 15 /\ cpu.n = 5
    /\ cpu.d = 255
    /\ ~cpu.df

\* C17: a memory tick with MRD high, MWR low and write-enable true whose
\* latched address lies in a write-protect range returns
\* WriteProtectionFault(addr) and leaves every memory byte unchanged; no
\* tick ever changes a byte inside a write-protect range.
C17_WriteProtection ==
    [][pc = "mem" =>
          /\ (pins'.mrd /\ ~pins'.mwr /\ arg'.we
                  /\ ~is_writable(mem, mem'.addr_hi * 256 + pins'.ma)) =>
                /\ ret' = <<"WriteProtectionFault", mem'.addr_hi * 256 + pins'.ma>>
                /\ mem'.data = mem.data
          /\ \A a \in MemAddrs :
                ~is_writable(mem, a) => mem_read(mem'.data, a) = mem_read(mem.data, a)
          /\ mem'.write_protect = mem.write_protect]_vars

C17_Witness ==
    /\ pc = "mem"
    /\ ret = <<"WriteProtectionFault", 65535>>
    /\ pins.mrd /\ ~pins.mwr /\ pins.bus = 7
    /\ arg.we
    /\ mem_read(mem.data, 65535) = 0
    /\ mem_read(mem.data, 255) = 7

\* C18: after a tick with TPA high and MA = hi, every read (MRD low) and
\* every write (MWR low, write-enable true, address writable) of that tick
\* and of the later ticks targets (hi << 8) | MA of the accessing tick,
\* until the next tick with TPA high.
C18_TpaLatch ==
    [][(pc = "mem" /\ arg'.hi # -1) =>
          /\ ~pins'.mrd =>
                /\ ret' = <<"Read", arg'.hi * 256 + pins'.ma>>
                /\ pins'.bus = mem_read(mem.data, arg'.hi * 256 + pins'.ma)
                /\ mem'.data = mem.data
          /\ (pins'.mrd /\ ~pins'.mwr /\ arg'.we
                  /\ is_writable(mem, arg'.hi * 256 + pins'.ma)) =>
                /\ ret' = <<"Write", arg'.hi * 256 + pins'.ma>>
                /\ mem'.data = mem_write(mem.data, arg'.hi * 256 + pins'.ma, pins'.bus)]_vars

C18_Witness ==
    /\ pc = "mem"
    /\ arg.hi = 255
    /\ ~pins.tpa
    /\ pins.ma = 0
    /\ ret = <<"Write", 65280>>
    /\ mem_read(mem.data, 65280) = 7

\* C19 as stated: for every Instr value, whatever its u8 fields hold,
\* decode(encode(instr)) is Some and equals instr.
C19_Roundtrip ==
    pc = "roundtrip" => ret = arg

\* An Instr value that decode returns for some slice: its opcode followed by
\* its operand bytes when its schema is plain, one of the sixteen bytes with
\* its high nibble when it is packed.
Decodable(instr) ==
    IF schema_of(instr.ident).packed = "none"
    THEN decode(<<schema_of(instr.ident).opcode>> \o instr.args) = instr
    ELSE \E n \in 0..15 : decode(<<schema_of(instr.ident).opcode + n>>) = instr

\* C19 amended: for every Instr value that decode can return (a packed
\* operand within its bits and not colliding with a plain opcode: 1..15 for
\* Ldn, 0..15 for the other nibble-packed variants, 1..7 for Out and Inp; any
\* operand bytes), decode(encode(instr)) is Some and equals instr.
C19_RoundtripDecodable ==
    (pc = "roundtrip" /\ Decodable(arg)) => ret = arg

C19_Witness ==
    /\ pc = "roundtrip"
    /\ arg = Instr("Lbr", <<255, 1>>)
    /\ ret = arg

\* The size of the instruction a first byte starts, per the CDP1802
\* instruction set: long branches take three bytes, short branches and
\* immediates two, everything else one.
OpcodeSize(b) ==
    IF b \in (192..195) \cup (201..203) THEN 3
    ELSE IF b \in ((48..63) \ {56}) \cup {124, 125, 127} \cup ((248..255) \ {254}) THEN 2
    ELSE 1

\* C20: decode returns None on an empty slice; for every first byte it
\* returns Some exactly when the slice holds at least as many bytes as the
\* opcode's size, the value it returns has that size, and a byte with a
\* plain full-byte schema (0x00 Idl, 0x60 Irx, 0x68 Resv68, ...) decodes to
\* that variant, never to the packed variant sharing its high nibble.
C20_DecodeTotal ==
    pc = "decoded" =>
        IF arg = <<>> THEN ret = InstrNone
        ELSE /\ (ret # InstrNone) <=> (Len(arg) >= OpcodeSize(arg[1]))
             /\ ret # InstrNone => size(ret) = OpcodeSize(arg[1])
             /\ \A k \in 1..Len(Schemas) :
                   (Schemas[k].packed = "none" /\ Schemas[k].opcode = arg[1]
                       /\ ret # InstrNone) => ret.ident = Schemas[k].ident
             /\ (arg[1] = 0 => ret.ident = "Idl")
             /\ (arg[1] = 96 => ret.ident = "Irx")
             /\ (arg[1] = 104 => ret.ident = "Resv68")

C20_Witness ==
    /\ pc = "decoded"
    /\ arg = <<104, 90>>
    /\ ret = Instr("Resv68", <<>>)

\* C21 as stated: for every address below the memory size the helper
\* returns decode(data[addr .. min(addr + 3, size)]); in particular the
\* one-byte instruction stored at the last address.
C21_InstrAt ==
    pc = "got" =>
        ret = decode(data_slice(mem, arg,
                                (IF arg + 3 < Capacity THEN arg + 3 ELSE Capacity) - 1))

\* The levels test_tx_5o2 expects on SO, one per 16-tick window: start bit,
\* five data bits of 0x6C LSB first, parity bit, two stop bits.
Tx5o2Windows == <<FALSE, FALSE, FALSE, TRUE, TRUE, FALSE, FALSE, TRUE, TRUE>>

\* The scenario of test_tx_5o2, clk ticks after the tick with DS low.
Tx5o2 ==
    /\ pc = "running"
    /\ arg = AyScenario("tx", [char_bits |-> 5, parity |-> "Odd", stop_bits |-> 2], 108)

\* C22: in mode (5, Odd, 2), after DB = 0x6C is strobed with DS low then
\* high, SO holds in the nine consecutive 16-tick windows that start with the
\* tick releasing DS the start bit 0, the data bits 0,0,1,1,0, the parity bit
\* 0 and the stop bits 1,1, the same level after every tick of a window; EOC
\* is low through the second stop window and rises with its sixteenth tick.
C22_Tx5o2 ==
    Tx5o2 =>
        /\ \A w \in 0..8 :
              clk \in (16 * w + 1)..(16 * w + 16) => pins.so = Tx5o2Windows[w + 1]
        /\ clk \in 2..144 => ~pins.eoc
        /\ clk = 145 => pins.eoc /\ pins.so

C22_Witness == Tx5o2 /\ clk = 145 /\ pins.eoc /\ chip.tx.state.tag = "Idle"

\* The scenario of test_rx_framing_error: SI low from the first tick on.
RxLow5n1 ==
    /\ pc = "running"
    /\ arg = AyScenario("low", [char_bits |-> 5, parity |-> "None", stop_bits |-> 1], 0)

\* C23: a fresh chip configured (5, None, 1) whose SI is low for
\* (1 + 5 + 1) * 16 ticks from the first tick shows DAV and FE set, PE and OR
\* clear and RD = 0x00.
C23_FramingError ==
    (RxLow5n1 /\ clk = (1 + 5 + 1) * 16) =>
        /\ pins.dav
        /\ pins.fe
        /\ ~pins.pe
        /\ ~pins.or
        /\ pins.rd = 0

C23_Witness == RxLow5n1 /\ clk = (1 + 5 + 1) * 16 /\ chip.rx.fe /\ chip.rx.dav

\* The length of a frame in ticks: start bit, data bits, parity bit if any and
\* stop bits, 16 ticks each (the cycle counts roundtrip is called with).
FrameTicks(m) ==
    (1 + m.char_bits + (IF m.parity # "None" THEN 1 ELSE 0) + m.stop_bits) * 16

\* C24: for every mode and every byte below 2^char_bits, with SO copied to SI
\* before every tick, strobing DS with DB = byte shows, once the frame has
\* elapsed (roundtrip's FrameTicks + 1 ticks with DS released, and after),
\* DAV set, RD = byte and FE, PE and OR clear.
C24_RxTxSymmetry ==
    (pc = "running" /\ arg.kind = "loop" /\ clk > FrameTicks(arg)) =>
        /\ pins.dav
        /\ pins.rd = arg.byte
        /\ ~pins.fe
        /\ ~pins.pe
        /\ ~pins.or

C24_Witness ==
    /\ pc = "running"
    /\ arg.kind = "loop"
    /\ arg.char_bits = 7
    /\ arg.parity = "Odd"
    /\ arg.stop_bits = 2
    /\ arg.byte = 101
    /\ clk = FrameTicks(arg) + 1
    /\ pins.dav
    /\ pins.rd = 101
    /\ pins.eoc

\* C25: after one tick with XR high, taken from any state the chip reaches,
\* the receiver and the transmitter equal their default-constructed states
\* (Idle, tick 0, shift and holding registers 0, DAV, PE, FE and OR clear,
\* TBMT and EOC high).
C25_XrReset == pc = "xr" => chip.rx = RxDefault /\ chip.tx = TxDefault

\* C26: for every Control that Control::new and the setters can build, from
\* any u8 word_length and stop_bits, Control::from(u8::from(c)) = c.
C26_ControlRoundtrip == pc = "converted" => ret = arg

\* C26 (amended): Control::from(u8::from(c)) is c with word_length brought
\* into 5..8 (5 for less, 8 for more) and stop_bits into 1..2 (1 for 0 and 1,
\* 2 for more); parity, IE, tx-break and TR come back unchanged.  It equals c
\* exactly when word_length is in 5..8 and stop_bits is 1 or 2.
C26_ControlRoundtripInRange ==
    pc = "converted" =>
        /\ ret = [arg EXCEPT !.word_length = IF @ < 5 THEN 5 ELSE IF @ > 8 THEN 8 ELSE @,
                             !.stop_bits = IF @ > 1 THEN 2 ELSE 1]
        /\ (ret = arg) <=> (arg.word_length \in 5..8 /\ arg.stop_bits \in 1..2)

\* test_control_roundtrip's second control word.
C26_Witness ==
    /\ pc = "converted"
    /\ arg = [word_length |-> 5, parity |-> "Odd", stop_bits |-> 2,
              ie |-> FALSE, tx_break |-> TRUE, tr |-> TRUE]
    /\ ret = arg

\* C27: after every call of tick_tpb, tick_rclock or tick_tclock the INT pin
\* is low exactly when control.ie is set and one of the interrupt latches
\* (DA, Tx-ready, Tx-done, PSI, CTS) is set.
C27_IntPin ==
    pc # "new" =>
        (~pins.int <=>
            (chip.control.ie
                /\ (chip.interrupts.da \/ chip.interrupts.tx_ready
                      \/ chip.interrupts.tx_done \/ chip.interrupts.psi
                      \/ chip.interrupts.cts)))

C27_Witness ==
    /\ pc = "end"
    /\ ~pins.int
    /\ chip.interrupts.da
    /\ chip.interrupts.tx_done
    /\ chip.interrupts.tx_ready
    /\ chip.interrupts.psi
    /\ chip.interrupts.cts

\* A step that writes the control register with the TR bit set: the free
\* tick_tpb selecting the chip for a control write, or write_control with TR.
TrWrite ==
    \/ /\ pc' = "free"
       /\ pins'.clear
       /\ pins'.cs = 5
       /\ pins'.tpb
       /\ pins'.rsel
       /\ ~pins'.rd_wr
       /\ pins'.tbus >= 128
    \/ pc = "ready" /\ pc' = "tr"

\* C28: a control-register write whose TR bit is 1 sets control.tr and leaves
\* every other control bit and the tx-break latch as they were, whatever the
\* written byte: the chip after the call is the chip after the call's /PSI
\* and /CTS edge detection with control.tr set and nothing else changed.
C28_TrInhibits ==
    [][TrWrite =>
          /\ chip'.control = [chip.control EXCEPT !.tr = TRUE]
          /\ chip' = [tpb_cts(tpb_psi(chip, pins'), pins') EXCEPT !.control.tr = TRUE]
          /\ (~(~chip.prev_cts /\ pins'.cts) => chip'.tx.break_latch = chip.tx.break_latch)]_vars

\* A write of 0xA0 (TR and IE, no TBRK) on a chip with IE clear, TBRK set and
\* the break latch set.
C28_Witness ==
    /\ pc = "free"
    /\ pins.clear /\ pins.cs = 5 /\ pins.tpb /\ pins.rsel /\ ~pins.rd_wr
    /\ pins.tbus = 160
    /\ chip.control = [control_new(5, "Even", 2) EXCEPT !.tx_break = TRUE, !.tr = TRUE]
    /\ chip.tx.break_latch

\* DA was raised by the last receiver tick: both completing arms of Rx::tick
\* leave DA set and the tick counter at 0 in a waiting state.
Raised(c) ==
    /\ c.rx.da
    /\ c.rx.tick = 0
    /\ c.rx.state.tag \in {"WaitSdiLow", "WaitSdiHigh"}

\* C29: for every format, a word taken from the paravirt channel raises DA on
\* the same receiver tick as the same word arriving as a frame whose
\* start-bit edge is seen on the tick of the dequeue.
C29_PvWireTiming ==
    (pc = "rx" /\ ~arg.second) => (Raised(chip) <=> Raised(peer.chip))

\* The receiver ticks after which test_pv_rx finds the first and the second
\* word: two idle ticks plus rx_ticks, then one idle tick plus rx_ticks more.
PvFirst(ctrl) == 2 + rx_ticks(ctrl)

PvSecond(ctrl) == PvFirst(ctrl) + 1 + rx_ticks(ctrl)

\* C30: with 0x11 and then 0xFF queued on the paravirt rx channel and IE set,
\* DA is false and INT high except after exactly 2 + rx_ticks(ctrl) receiver
\* ticks and after 1 + rx_ticks(ctrl) more; there INT is low, the status read
\* has DA set, and the data reads are 0x11 and then 0xFF masked to the word
\* length (0x7F for 7 bits), after which INT is high again.
C30_PvRx ==
    arg.second =>
        /\ pc = "rx" =>
              /\ chip.rx.da <=> clk \in {PvFirst(arg.control), PvSecond(arg.control)}
              /\ pins.int = ~chip.rx.da
        /\ pc = "status" => ret.da /\ ~ret.oe /\ ~ret.pe /\ ~ret.fe
        /\ pc = "read" =>
              /\ clk \in {PvFirst(arg.control), PvSecond(arg.control)}
              /\ clk = PvFirst(arg.control) => ret = 17
              /\ clk = PvSecond(arg.control) =>
                    ret = BitOp("and", 255, word_mask(arg.control), 8)
              /\ ~chip.rx.da
              /\ pins.int

\* The second read of test_pv_rx: 0x7F after 2 * rx_ticks + 3 = 97 ticks.
C30_Witness ==
    /\ pc = "read"
    /\ arg.second
    /\ arg.control = [control_new(7, "None", 1) EXCEPT !.ie = TRUE]
    /\ clk = 97
    /\ ret = 127

\* The tx channel holds as many words as its capacity.
PvTxFull(c) == c.tx.pv_tx.some /\ Len(c.tx.pv_tx.q) >= c.tx.pv_tx.cap

\* C31: under any interleaving of data writes, tick_tpb, tick_tclock and
\* consumer dequeues, a transmitter that has just loaded its shift register
\* from the holding register (state Start, tick 0) never has a full channel
\* in front of it, and the send never finds the channel full.
C31_PvTxBackPressure ==
    /\ ~chip.tx.fault
    /\ (pc = "free" /\ chip.tx.state.tag = "Start" /\ chip.tx.tick = 0)
          => ~PvTxFull(chip)

\* Back-pressure at work: the channel of capacity 2 is full, a third word
\* waits in the holding register, CTS is high and the transmitter idles.
C31_Witness ==
    /\ pc = "free"
    /\ chip.tx.pv_tx.q = <<17, 127>>
    /\ ~chip.tx.thre
    /\ chip.tx.state.tag = "Idle"
    /\ chip.tx.tick > 2
    /\ pins.cts

\* A DMA-In request is latched and the CPU has not yet entered its cycle.
McPending == IF ~pins.dma_in /\ cpu.state # State("DmaIn", 0) THEN 1 ELSE 0

\* The DmaIn cycles whose increment of R[0] has happened (sub-tick 4) and
\* those whose MWR pulse has reached the memory (sub-tick 5).
McIncremented ==
    IF cpu.state.k = "DmaIn" /\ cpu.state.t <= 4 THEN ret.cycles - 1 ELSE ret.cycles

McStored ==
    IF cpu.state.k = "DmaIn" /\ cpu.state.t <= 5 THEN ret.cycles - 1 ELSE ret.cycles

\* The memory holds the input byte in its first n cells and nothing else.
McWritten(n) ==
    /\ \A a \in DOMAIN mem.data : a < n
    /\ \A a \in 0..(n - 1) : mem_read(mem.data, a) = arg.inp_buffer

\* C32 as stated: in load mode every release of Inp seen by the board gives
\* exactly one DmaIn cycle, which writes the input byte at R[0] and advances
\* R[0] by one.
C32_InpRelease ==
    pc = "load" =>
        /\ ret.cycles + McPending = ret.edges
        /\ cpu.r[0] = McIncremented
        /\ McWritten(McStored)

\* C32 amended: in load mode every release of Inp seen while no DMA-In
\* request is pending and the CPU is not in sub-ticks 0..6 of a DmaIn cycle
\* gives exactly one DmaIn cycle, and no cycle starts otherwise; each cycle
\* advances R[0] by one, and writes the input byte at the old R[0] exactly
\* when the read switch is up (read = false); with the switch down the
\* memory is left unchanged.  A release seen while a request is pending or
\* within sub-ticks 0..6 of a DmaIn cycle starts no cycle of its own.
C32_InpReleaseClean ==
    pc = "load" =>
        /\ ret.cycles + McPending = ret.clean
        /\ cpu.r[0] = McIncremented
        /\ IF arg.read THEN McWritten(0) ELSE McWritten(McStored)

\* Three clean releases with the write switch set: three cycles, three bytes.
C32_Witness ==
    /\ pc = "load"
    /\ ~arg.read
    /\ arg.inp_buffer = 123
    /\ ret.edges = 3
    /\ ret.clean = 3
    /\ ret.cycles = 3
    /\ cpu.state.k = "Execute"
    /\ cpu.r[0] = 3
    /\ mem.data = [a \in 0..2 |-> 123]

\* C39: under any sequence of add (with non-decreasing now), pop_next_at
\* and reset, the assertion inside reset() holds: the latest expired
\* timestamp is not above the earliest pending one.
C39_ResetAssertion == pc = "log" => ~board.fault

\* C33: events that share a timestamp are applied in the order in which
\* they were added (an event's value is its place in that order), and a tick
\* that advanced the devices left no event pending that was due at its time.
C33_InsertionOrder ==
    pc = "basic" =>
        /\ \A i, j \in 1..Len(ret.applied) :
              (i < j /\ ret.applied[i].timestamp = ret.applied[j].timestamp)
                  => ret.applied[i].value < ret.applied[j].value
        /\ (ret.status # "Event" /\ board.clock_cycle > 0) =>
              \A k \in 1..Len(board.input_events.pending) :
                  board.input_events.pending[k].timestamp
                      > arg.cycle_time * (board.clock_cycle - 1)

\* C34 Cdp1802::tick never fails: whatever modes and request pins are applied
\* tick by tick to a default-constructed CPU, no tick reaches unreachable!()
\* and the CPU is never left where a Load tick would find the cycle state
\* in Fetch, DmaOut or Interrupt.
C34_TickNeverFails ==
    /\ ~cpu.fault
    /\ cpu.prev_mode \in {"Load", "Reset"}
          => cpu.state.k \in {"Init", "Execute", "DmaIn"}

\* A Load tick taken after Run ticks had accepted an interrupt (X = 2,
\* P = 1): it resets the CPU to Init(0) instead of processing the cycle.
C34_Witness ==
    /\ pc = "op"
    /\ last_mode = "Load"
    /\ cpu.prev_mode = "Load"
    /\ cpu.state = State("Init", 0)
    /\ cpu.x = 2
    /\ cpu.p = 1

\* C40 CPU cycle-state bounds: in every reachable state the sub-tick is at
\* most 8 in Init, at most 7 in Fetch, DmaIn, DmaOut and Interrupt, at most
\* 15 in Execute, and an Execute sub-tick above 7 occurs only while I = 0xC.
C40_CycleStateBounds ==
    /\ cpu.state.k \in Kinds
    /\ cpu.state.k = "Init" => cpu.state.t \in 0..8
    /\ cpu.state.k \in {"Fetch", "DmaIn", "DmaOut", "Interrupt"} => cpu.state.t \in 0..7
    /\ cpu.state.k = "Execute" => cpu.state.t \in 0..15
    /\ (cpu.state.k = "Execute" /\ cpu.state.t > 7) => cpu.i = 12

\* The last sub-tick of the Execute cycle of a long-branch instruction
\* other than LBR is reached in Run mode.
C40_Witness ==
    /\ pc = "op"
    /\ last_mode = "Run"
    /\ cpu.state = State("Execute", 15)
    /\ cpu.i = 12
    /\ cpu.n = 5

\* C37 After every CPU tick, in every mode, cycle kind and opcode, the MRD
\* and MWR output pins are never both low.
C37_MrdMwrExclusive ==
    /\ pins.mrd \/ pins.mwr
    /\ cpu.out.mrd \/ cpu.out.mwr

\* The Execute cycle of a store instruction (STR) holds MWR low after its
\* Fetch cycle had held MRD low.
C37_Witness ==
    /\ pc = "op"
    /\ last_mode = "Run"
    /\ cpu.state = State("Execute", 6)
    /\ cpu.i = 5
    /\ ~pins.mwr
    /\ pins.mrd

\* C35 No nested interrupts: in a Run-mode execution, once an Interrupt cycle
\* has been entered, IE stays false and no further Interrupt cycle is
\* entered, however long INTR is held low, until RET (70) executes or the
\* CPU is reset.
C35_NoNestedInterrupts ==
    /\ ret.serving => ~cpu.ie
    /\ ~ret.nested

\* A second Interrupt cycle is entered right after the RET of the first
\* service routine has executed (it loaded X = 7 from the byte at R[2]).
C35_Witness ==
    /\ pc = "intr"
    /\ cpu.state = State("Interrupt", 0)
    /\ ~ret.serving
    /\ cpu.ie
    /\ cpu.x = 7
    /\ cpu.i = 7
    /\ cpu.n = 0

\* C36 Interrupt latency is bounded: in Run mode with DMAIN and DMAOUT held
\* high, if INTR is held low from some tick on and IE is true and stays
\* true, an Interrupt cycle begins within 24 ticks, also when the CPU is
\* idling on IDL.
C36_InterruptLatency == ret.low < 24

\* C36 as amended.  The ticks of an Init cycle do not count: the sampling at
\* the end of Init never starts an Interrupt cycle, so the Interrupt cycle
\* begins within 24 ticks of the end of Init, and within 33 ticks of the
\* tick from which INTR is held low.
C36_InterruptLatencyAfterInit ==
    /\ ret.low - ret.init < 24
    /\ ret.init <= 9
    /\ ret.low < 33

\* INTR has been held low since the first tick of Init and through the
\* Fetch cycle and 15 sub-ticks of the Execute cycle of LBR: the next tick
\* samples it.
C36_Witness ==
    /\ pc = "intr"
    /\ ret.low = 32
    /\ ret.init = 9
    /\ cpu.state = State("Execute", 15)
    /\ cpu.ie
    /\ ~pins.intr

\* The bytes strobed so far as the mode frames them: the low char_bits bits.
TxFramed == [k \in 1..Len(ret.sent) |-> ret.sent[k] % (2 ^ arg.char_bits)]

\* C38 The AY-5-1013 transmitter loses and duplicates nothing: when every
\* DS strobe is issued while TBMT is high, the frames read off SO are whole
\* frames and carry the strobed bytes, each once and in strobe order, at
\* most one frame and one buffered byte behind; once the transmitter is
\* idle with its buffer empty every strobed byte has been sent.
C38_TxLossless ==
    pc = "tx" =>
       /\ ~ret.bad
       /\ Len(ret.got) <= Len(ret.sent)
       /\ Len(ret.sent) <= Len(ret.got) + 2
       /\ \A k \in 1..Len(ret.got) : ret.got[k] = TxFramed[k]
       /\ (chip.tx.state.tag = "Idle" /\ chip.tx.tbmt /\ pins.ds /\ ret.st = "idle")
             => ret.got = TxFramed

\* Two frames have been read off SO and the third byte, strobed while the
\* second frame was being shifted out, waits in the holding register during
\* the stop bit of the second frame.
C38_Witness ==
    /\ pc = "tx"
    /\ arg.char_bits = 5
    /\ ret.sent = <<8, 15, 83>>
    /\ ret.got = <<8, 15>>
    /\ ~chip.tx.tbmt
    /\ chip.tx.state.tag = "Stop"

====
